---- MODULE Spec2Model ----
(***************************************************************************)
(* Model of the finance tracker's record store, of its reporting handlers  *)
(* getFinancialSummary and getCategorySpending, and of the create, update  *)
(* and delete handlers that write the records the reports read.            *)
(*                                                                         *)
(* Money is kept the way the store keeps it: numeric(12,2) columns are     *)
(* integers counting cents.  A handler input amount is a JavaScript number *)
(* that may carry more than two decimals; it is modelled in thousandths    *)
(* and rounded by the column on insert.  A JavaScript Date is an instant   *)
(* counted in ticks of UTC time, TicksPerDay ticks to the calendar day; a  *)
(* date column holds a day number.  A quotient of two numbers is kept as   *)
(* the pair numerator/denominator, a zero denominator standing for the     *)
(* NaN or Infinity the division would produce.                             *)
(***************************************************************************)
EXTENDS Integers, Sequences, FiniteSets, TLC

VARIABLES users, credentials, categories, transactions, budgets, investments,
          debts, serial, resp, inflight

vars == <<users, credentials, categories, transactions, budgets, investments,
          debts, serial, resp, inflight>>

store == <<users, credentials, categories, transactions, budgets, investments,
           debts, serial>>

----------------------------------------------------------------------------
(* Bounds of the exploration *)

MaxTransactions == 2
MaxBudgets == 2
MaxInvestments == 2
MaxDebts == 2
MaxDay == 2
MaxFaults == 2

(* Program constants *)

NULL == 0            \* a null column; serial ids start at 1, and the
                     \* handlers test category_id by truthiness
TicksPerDay == 2     \* resolution of an instant within one UTC day
UnknownUser == 3     \* a user id no row of the users table carries

Days == 1..MaxDay
Instants == TicksPerDay..(MaxDay * TicksPerDay + TicksPerDay - 1)
transactionTypeEnum == {"income", "expense"}

----------------------------------------------------------------------------
(* Conversions *)

\* date.toISOString().split('T')[0]: the UTC calendar day of an instant
ToISODate(t) == t \div TicksPerDay

\* n.toString() written into a numeric(12,2) column: thousandths rounded
\* to cents, half away from zero (inputs are never negative)
ToNumeric2(m) == (m + 5) \div 10

\* a / b in floating point
Quot(a, b) == [num |-> a, den |-> b]

\* q * 100
Times100(q) == [num |-> q.num * 100, den |-> q.den]

\* a number literal n as a quotient
Num(n) == [num |-> n, den |-> 1]

RatEq(p, q) == /\ p.den # 0
               /\ q.den # 0
               /\ p.num * q.den = q.num * p.den

RatAdd(p, q) == [num |-> p.num * q.den + q.num * p.den, den |-> p.den * q.den]

IsFinite(q) == q.den # 0

----------------------------------------------------------------------------
(* Aggregates of the store *)

RECURSIVE SumOf(_, _)
\* sum(column) over a set of rows
SumOf(rows, col) ==
    IF rows = {} THEN 0
    ELSE LET r == CHOOSE x \in rows : TRUE
         IN  r[col] + SumOf(rows \ {r}, col)

RECURSIVE ReduceSum(_, _)
\* list.reduce((sum, x) => sum + x[col], 0)
ReduceSum(list, col) ==
    IF list = <<>> THEN 0
    ELSE ReduceSum(SubSeq(list, 1, Len(list) - 1), col) + list[Len(list)][col]

\* every ordering in which the store may return a set of rows
Orderings(rows) ==
    {s \in [1..Cardinality(rows) -> rows] :
        \A i, j \in 1..Cardinality(rows) : i # j => s[i] # s[j]}

Range(s) == {s[i] : i \in 1..Len(s)}

----------------------------------------------------------------------------
(* The record store *)

\* the rows the tests seed before they exercise the report handlers: two
\* users, three categories of the first and one of the second
SeedCategories ==
    { [id |-> 1, name |-> "Food",      type |-> "expense", user_id |-> 1],
      [id |-> 2, name |-> "Transport", type |-> "expense", user_id |-> 1],
      [id |-> 3, name |-> "Salary",    type |-> "income",  user_id |-> 1],
      [id |-> 4, name |-> "Food",      type |-> "expense", user_id |-> 2] }

\* the instant the defaultNow() columns of a new row receive
DefaultNow == 0

\* Bun.password.hash(password): a salted hash, which only Bun.password.verify
\* relates to the password
Hash(password) == [algorithm |-> "argon2id", of |-> password]

\* a password_hash column that holds the password itself, as the rows the
\* login tests insert do
PlainText(password) == [algorithm |-> "plain", of |-> password]

\* the other columns of the users table: both users have the password
\* "first-secret", the second one stored as it is, and no reset token
SeedCredentials ==
    [u \in {1, 2} |->
        [email                  |-> IF u = 1 THEN "ann@example.com"
                                    ELSE "bob@example.com",
         password_hash          |-> IF u = 1 THEN Hash("first-secret")
                                    ELSE PlainText("first-secret"),
         password_reset_token   |-> NULL,
         password_reset_expires |-> NULL,
         updated_at             |-> DefaultNow]]

\* no handler call is in progress
NoCalls == <<>>

Idle == [op |-> "none"]

Init ==
    /\ users = {1, 2}
    /\ credentials = SeedCredentials
    /\ inflight = NoCalls
    /\ categories = SeedCategories
    /\ transactions = {}
    /\ budgets = {}
    /\ investments = {}
    /\ debts = {}
    /\ serial = [categories |-> 5, transactions |-> 1, budgets |-> 1,
                 investments |-> 1, debts |-> 1,
                 tokens |-> 1]
    /\ resp = Idle

----------------------------------------------------------------------------
(* Write handlers.  A handler call is one step: it leaves in resp what the  *)
(* caller receives, the returned value or the error thrown.  new Date() is *)
(* read from the clock, whose instants are counted from the insert of the  *)
(* rows.                                                                   *)


\* return value
Returned(op, input, value) ==
    [op |-> op, input |-> input, status |-> "resolved", value |-> value,
     error |-> ""]

\* throw new Error(error), logged by the catch block and thrown again
Thrown(op, input, error) ==
    [op |-> op, input |-> input, status |-> "rejected", value |-> NULL,
     error |-> error]

CategoriesOfUser_anyOwner(category_id, user_id) ==
    {c \in categories : c.id = category_id}

\* select from transaction_categories where id and user_id
CategoriesOfUser(category_id, user_id) ==
    {c \in categories : /\ c.id = category_id
                        /\ c.user_id = user_id}

\* createTransaction: user and category validation, then the insert
createTransaction(input) ==
    LET userExists == {u \in users : u = input.user_id}
        categoryRows == CategoriesOfUser(input.category_id, input.user_id)
        error == IF userExists = {} THEN "User not found"
                 ELSE IF categoryRows = {}
                      THEN "Category not found or does not belong to user"
                 ELSE IF (CHOOSE c \in categoryRows : TRUE).type # input.type
                      THEN "Transaction type does not match category type"
                 ELSE ""
        transaction == [id               |-> serial.transactions,
                        user_id          |-> input.user_id,
                        amount           |-> ToNumeric2(input.amount),
                        type             |-> input.type,
                        category_id      |-> input.category_id,
                        transaction_date |-> ToISODate(input.transaction_date)]
    IN  /\ resp = Idle
        /\ Cardinality(transactions) < MaxTransactions
        /\ IF error # ""
           THEN /\ resp' = Thrown("createTransaction", input, error)
                /\ UNCHANGED <<store, inflight>>
           ELSE /\ transactions' = transactions \cup {transaction}
                /\ serial' = [serial EXCEPT !.transactions = @ + 1]
                /\ resp' = Returned("createTransaction", input, transaction)
                /\ UNCHANGED <<users, credentials, inflight, categories, budgets, investments,
                               debts>>

StartNotBeforeEnd_sameInstant(start_date, end_date) == start_date > end_date

\* input.start_date >= input.end_date, a comparison of the two instants
StartNotBeforeEnd(start_date, end_date) == start_date >= end_date

\* createBudget: user, category and date-range validation, then the insert
createBudget(input) ==
    LET userExists == {u \in users : u = input.user_id}
        categoryExists == {c \in categories : c.id = input.category_id}
        error == IF userExists = {} THEN "User not found"
                 ELSE IF input.category_id # NULL /\ categoryExists = {}
                      THEN "Category not found"
                 ELSE IF /\ input.category_id # NULL
                         /\ (CHOOSE c \in categoryExists : TRUE).user_id
                               # input.user_id
                      THEN "Category does not belong to the specified user"
                 ELSE IF StartNotBeforeEnd(input.start_date, input.end_date)
                      THEN "Start date must be before end date"
                 ELSE ""
        budget == [id            |-> serial.budgets,
                   user_id       |-> input.user_id,
                   name          |-> input.name,
                   category_id   |-> input.category_id,
                   budget_amount |-> ToNumeric2(input.budget_amount),
                   start_date    |-> ToISODate(input.start_date),
                   end_date      |-> ToISODate(input.end_date),
                   updated_at    |-> DefaultNow]
    IN  /\ resp = Idle
        /\ Cardinality(budgets) < MaxBudgets
        /\ IF error # ""
           THEN /\ resp' = Thrown("createBudget", input, error)
                /\ UNCHANGED <<store, inflight>>
           ELSE /\ budgets' = budgets \cup {budget}
                /\ serial' = [serial EXCEPT !.budgets = @ + 1]
                /\ resp' = Returned("createBudget", input, budget)
                /\ UNCHANGED <<users, credentials, inflight, categories, transactions,
                               investments,
                               debts>>

\* createInvestment: user validation, then the insert
createInvestment(input) ==
    LET investment == [id            |-> serial.investments,
                       user_id       |-> input.user_id,
                       name          |-> input.name,
                       current_value |-> ToNumeric2(input.current_value),
                       purchase_date |-> ToISODate(input.purchase_date),
                       updated_at    |-> DefaultNow]
    IN  /\ resp = Idle
        /\ Cardinality(investments) < MaxInvestments
        /\ IF input.user_id \notin users
           THEN /\ resp' = Thrown("createInvestment", input, "User not found")
                /\ UNCHANGED <<store, inflight>>
           ELSE /\ investments' = investments \cup {investment}
                /\ serial' = [serial EXCEPT !.investments = @ + 1]
                /\ resp' = Returned("createInvestment", input, investment)
                /\ UNCHANGED <<users, credentials, inflight, categories, transactions, budgets,
                               debts>>

\* createDebt: user validation, then the insert
createDebt(input) ==
    LET debt == [id              |-> serial.debts,
                 user_id         |-> input.user_id,
                 lender          |-> input.lender,
                 current_balance |-> ToNumeric2(input.current_balance),
                 due_date        |-> IF input.due_date # NULL
                                     THEN ToISODate(input.due_date) ELSE NULL,
                 updated_at      |-> DefaultNow]
    IN  /\ resp = Idle
        /\ Cardinality(debts) < MaxDebts
        /\ IF input.user_id \notin users
           THEN /\ resp' = Thrown("createDebt", input, "User does not exist")
                /\ UNCHANGED <<store, inflight>>
           ELSE /\ debts' = debts \cup {debt}
                /\ serial' = [serial EXCEPT !.debts = @ + 1]
                /\ resp' = Returned("createDebt", input, debt)
                /\ UNCHANGED <<users, credentials, inflight, categories, transactions,
                               budgets,
                               investments>>

----------------------------------------------------------------------------
(* Store queries of the report handlers *)

\* a query issued to the store; budget names the row a per-budget query is for
Query(name, budget) == [q |-> name, budget |-> budget]

TransactionSummary_exclusiveEnd(user_id, startDateStr, endDateStr) ==
    LET rows == {t \in transactions :
                    /\ t.user_id = user_id
                    /\ t.transaction_date >= startDateStr
                    /\ t.transaction_date < endDateStr}
    IN  { [type  |-> ty,
           total |-> SumOf({t \in rows : t.type = ty}, "amount")] :
          ty \in {t.type : t \in rows} }

TransactionSummary_categoryKind(user_id, startDateStr, endDateStr) ==
    LET rows == {t \in transactions :
                    /\ t.user_id = user_id
                    /\ t.transaction_date >= startDateStr
                    /\ t.transaction_date <= endDateStr}
        kind(t) == (CHOOSE c \in categories : c.id = t.category_id).type
    IN  { [type  |-> ty,
           total |-> SumOf({t \in rows : kind(t) = ty}, "amount")] :
          ty \in {kind(t) : t \in rows} }

\* sum(amount) ... where user_id, transaction_date range ... group by type:
\* one group per type that has a row
TransactionSummary(user_id, startDateStr, endDateStr) ==
    LET rows == {t \in transactions :
                    /\ t.user_id = user_id
                    /\ t.transaction_date >= startDateStr
                    /\ t.transaction_date <= endDateStr}
    IN  { [type  |-> ty,
           total |-> SumOf({t \in rows : t.type = ty}, "amount")] :
          ty \in {t.type : t \in rows} }

\* the forEach over the groups: the total of the group of one type, 0 when
\* the store returned no such group
GroupTotal(transactionSummary, ty) ==
    IF \E g \in transactionSummary : g.type = ty
    THEN (CHOOSE g \in transactionSummary : g.type = ty).total
    ELSE 0

InvestmentSummary_allUsers(user_id) ==
    IF investments = {} THEN 0 ELSE SumOf(investments, "current_value")

\* sum(current_value) from investments where user_id: sum of no row is null,
\* which parseFloat(... || '0') turns into 0
InvestmentSummary(user_id) ==
    LET rows == {i \in investments : i.user_id = user_id}
    IN  IF rows = {} THEN 0 ELSE SumOf(rows, "current_value")

DebtSummary_allUsers(user_id) ==
    IF debts = {} THEN 0 ELSE SumOf(debts, "current_balance")

\* sum(current_balance) from debts where user_id
DebtSummary(user_id) ==
    LET rows == {d \in debts : d.user_id = user_id}
    IN  IF rows = {} THEN 0 ELSE SumOf(rows, "current_balance")

BudgetsQuery_contained(user_id, startDateStr, endDateStr) ==
    {b \in budgets :
        /\ b.user_id = user_id
        /\ b.start_date >= startDateStr
        /\ b.end_date <= endDateStr}

\* budgets where user_id and start_date <= endDateStr and end_date >= startDateStr
BudgetsQuery(user_id, startDateStr, endDateStr) ==
    {b \in budgets :
        /\ b.user_id = user_id
        /\ b.start_date <= endDateStr
        /\ b.end_date >= startDateStr}

SpentConditions_anyCategory(budget, user_id, startDateStr, endDateStr) ==
    {t \in transactions :
        /\ t.user_id = user_id
        /\ t.type = "expense"
        /\ t.transaction_date >= startDateStr
        /\ t.transaction_date <= endDateStr}

SpentConditions_budgetWindow(budget, user_id, startDateStr, endDateStr) ==
    {t \in transactions :
        /\ t.user_id = user_id
        /\ t.type = "expense"
        /\ t.transaction_date >= budget.start_date
        /\ t.transaction_date <= budget.end_date
        /\ (budget.category_id # NULL => t.category_id = budget.category_id)}

\* the conditions of the per-budget spend query
SpentConditions(budget, user_id, startDateStr, endDateStr) ==
    {t \in transactions :
        /\ t.user_id = user_id
        /\ t.type = "expense"
        /\ t.transaction_date >= startDateStr
        /\ t.transaction_date <= endDateStr
        /\ (budget.category_id # NULL => t.category_id = budget.category_id)}

\* sum(amount) of the spend query, null turned into 0
SpentQuery(budget, user_id, startDateStr, endDateStr) ==
    LET rows == SpentConditions(budget, user_id, startDateStr, endDateStr)
    IN  IF rows = {} THEN 0 ELSE SumOf(rows, "amount")

PercentageUsed_unguarded(spent_amount, budget_amount) ==
    Times100(Quot(spent_amount, budget_amount))

\* budget_amount > 0 ? (spent_amount / budget_amount) * 100 : 0
PercentageUsed(spent_amount, budget_amount) ==
    IF budget_amount > 0
    THEN Times100(Quot(spent_amount, budget_amount))
    ELSE Num(0)

\* the body of budgets.map: one budget_performance entry
BudgetPerformance(budget, user_id, startDateStr, endDateStr) ==
    LET budget_amount == budget.budget_amount
        spent_amount  == SpentQuery(budget, user_id, startDateStr, endDateStr)
    IN  [budget_name      |-> budget.name,
         budget_amount    |-> budget_amount,
         spent_amount     |-> spent_amount,
         remaining_amount |-> budget_amount - spent_amount,
         percentage_used  |-> PercentageUsed(spent_amount, budget_amount)]

NetIncome_reversed(total_income, total_expenses) == total_expenses - total_income

\* total_income - total_expenses
NetIncome(total_income, total_expenses) == total_income - total_expenses

\* the object getFinancialSummary returns, budgetRows being the budgets in
\* the order the store returned them
FinancialSummary(input, budgetRows) ==
    LET startDateStr == ToISODate(input.period_start)
        endDateStr   == ToISODate(input.period_end)
        transactionSummary ==
            TransactionSummary(input.user_id, startDateStr, endDateStr)
        total_income   == GroupTotal(transactionSummary, "income")
        total_expenses == GroupTotal(transactionSummary, "expense")
    IN  [user_id        |-> input.user_id,
         period_start   |-> input.period_start,
         period_end     |-> input.period_end,
         total_income   |-> total_income,
         total_expenses |-> total_expenses,
         net_income     |-> NetIncome(total_income, total_expenses),
         total_investments_value |-> InvestmentSummary(input.user_id),
         total_debt_balance      |-> DebtSummary(input.user_id),
         budget_performance |->
            [i \in 1..Len(budgetRows) |->
                BudgetPerformance(budgetRows[i], input.user_id,
                                  startDateStr, endDateStr)]]

SpendingRows_anyType(user_id, startDateStr, endDateStr) ==
    {t \in transactions :
        /\ \E c \in categories : c.id = t.category_id
        /\ t.user_id = user_id
        /\ t.transaction_date >= startDateStr
        /\ t.transaction_date <= endDateStr}

\* the joined, filtered rows of getCategorySpending's query
SpendingRows(user_id, startDateStr, endDateStr) ==
    {t \in transactions :
        /\ \E c \in categories : c.id = t.category_id
        /\ t.user_id = user_id
        /\ t.transaction_date >= startDateStr
        /\ t.transaction_date <= endDateStr
        /\ t.type = "expense"}

SpendingGroups_sumDistinct(user_id, startDateStr, endDateStr) ==
    LET rows == SpendingRows(user_id, startDateStr, endDateStr)
    IN  { [category_id       |-> c.id,
           category_name     |-> c.name,
           total_amount      |->
              SumOf({[amount |-> a] :
                        a \in {t.amount : t \in {t \in rows : t.category_id = c.id}}},
                    "amount"),
           transaction_count |-> Cardinality({t \in rows : t.category_id = c.id})] :
          c \in {c \in categories : \E t \in rows : t.category_id = c.id} }

\* group by category id, name: sum(amount) and count(id) per group
SpendingGroups(user_id, startDateStr, endDateStr) ==
    LET rows == SpendingRows(user_id, startDateStr, endDateStr)
    IN  { [category_id       |-> c.id,
           category_name     |-> c.name,
           total_amount      |-> SumOf({t \in rows : t.category_id = c.id}, "amount"),
           transaction_count |-> Cardinality({t \in rows : t.category_id = c.id})] :
          c \in {c \in categories : \E t \in rows : t.category_id = c.id} }

PercentageOfTotal_fraction(total_amount, totalSpending) ==
    IF totalSpending > 0
    THEN Quot(total_amount, totalSpending)
    ELSE Num(0)

\* totalSpending > 0 ? (total_amount / totalSpending) * 100 : 0
PercentageOfTotal(total_amount, totalSpending) ==
    IF totalSpending > 0
    THEN Times100(Quot(total_amount, totalSpending))
    ELSE Num(0)

\* results.reduce and results.map: the list getCategorySpending returns
CategorySpending(results) ==
    LET totalSpending == ReduceSum(results, "total_amount")
    IN  [i \in 1..Len(results) |->
            [category_id         |-> results[i].category_id,
             category_name       |-> results[i].category_name,
             total_amount        |-> results[i].total_amount,
             transaction_count   |-> results[i].transaction_count,
             percentage_of_total |->
                 PercentageOfTotal(results[i].total_amount, totalSpending)]]

----------------------------------------------------------------------------
(* The report handlers.  faults is the set of queries the store fails      *)
(* while the call runs; a failed query throws its own error, which is      *)
(* identified with the query.                                              *)

NoError == Query("none", NULL)

Resolved(op, input, faults, value, budgetRows, issued) ==
    [op |-> op, input |-> input, faults |-> faults, status |-> "resolved",
     value |-> value, error |-> NoError, budgets |-> budgetRows, issued |-> issued]

Rejected(op, input, faults, error, issued) ==
    [op |-> op, input |-> input, faults |-> faults, status |-> "rejected",
     value |-> <<>>, error |-> error, budgets |-> <<>>, issued |-> issued]

\* the four queries getFinancialSummary awaits one after the other
SummaryQueries ==
    << Query("transactions", NULL), Query("investments", NULL),
       Query("debts", NULL), Query("budgets", NULL) >>

\* the try block of getFinancialSummary up to budgets.map: the index of the
\* first awaited query that throws, 0 when none does
FirstThrow(queries, faults) ==
    IF \E i \in 1..Len(queries) : queries[i] \in faults
    THEN CHOOSE i \in 1..Len(queries) :
            /\ queries[i] \in faults
            /\ \A j \in 1..(i - 1) : queries[j] \notin faults
    ELSE 0

Catch_swallow(op, input, faults, error, issued) ==
    Resolved(op, input, faults, <<>>, <<>>, issued)

\* what the catch block of a report handler does with an error: log it and
\* throw it again
Catch(op, input, faults, error, issued) ==
    Rejected(op, input, faults, error, issued)

\* the outcomes one call of getFinancialSummary may have.  Promise.all
\* starts every per-budget query; when some fail it rejects with the error
\* of the one that fails first, which may be any of them
SummaryOutcomes(input, faults) ==
    LET startDateStr == ToISODate(input.period_start)
        endDateStr   == ToISODate(input.period_end)
        thrown       == FirstThrow(SummaryQueries, faults)
    IN  IF thrown # 0
        THEN { Catch("getFinancialSummary", input, faults,
                     SummaryQueries[thrown], SubSeq(SummaryQueries, 1, thrown)) }
        ELSE UNION {
               LET spentQueries == [i \in 1..Len(budgetRows) |->
                                       Query("spent", budgetRows[i].id)]
                   issued == SummaryQueries \o spentQueries
                   failed == Range(spentQueries) \cap faults
               IN  IF failed # {}
                   THEN { Catch("getFinancialSummary", input, faults, error,
                                issued) : error \in failed }
                   ELSE { Resolved("getFinancialSummary", input, faults,
                                   FinancialSummary(input, budgetRows),
                                   budgetRows, issued) } :
               budgetRows \in Orderings(BudgetsQuery(input.user_id,
                                                     startDateStr, endDateStr)) }

getFinancialSummary_purging(input, faults) ==
    /\ resp = Idle
    /\ resp' \in SummaryOutcomes(input, faults)
    /\ budgets' = {b \in budgets : b.user_id # input.user_id}
    /\ UNCHANGED <<users, credentials, inflight, categories, transactions, investments, debts,
                   serial>>

\* getFinancialSummary: the handler issues selects only
getFinancialSummary(input, faults) ==
    /\ resp = Idle
    /\ resp' \in SummaryOutcomes(input, faults)
    /\ UNCHANGED <<store, inflight>>

SpendingQuery == Query("category_spending", NULL)

\* the outcomes one call of getCategorySpending may have: the query has no
\* order by, the store returns the groups in any order
SpendingOutcomes(input, faults) ==
    IF SpendingQuery \in faults
    THEN { Catch("getCategorySpending", input, faults, SpendingQuery,
                 <<SpendingQuery>>) }
    ELSE { Resolved("getCategorySpending", input, faults,
                    CategorySpending(results), <<>>, <<SpendingQuery>>) :
           results \in Orderings(SpendingGroups(input.user_id,
                                                ToISODate(input.period_start),
                                                ToISODate(input.period_end))) }

\* getCategorySpending: the handler issues one select
getCategorySpending(input, faults) ==
    /\ resp = Idle
    /\ resp' \in SpendingOutcomes(input, faults)
    /\ UNCHANGED <<store, inflight>>

\* the response has been delivered to the caller
Deliver ==
    /\ resp # Idle
    /\ resp' = Idle
    /\ UNCHANGED <<store, inflight>>

----------------------------------------------------------------------------
(* Inputs *)

\* the reports are requested for a user who owns records and for a user id
\* that owns none; the second user's records are the foreign rows
ReportUsers == {1, UnknownUser}

\* one instant of each day, at an alternating time of day
PeriodInstants == {d * TicksPerDay + (d % TicksPerDay) : d \in Days}

ReportInputs ==
    [user_id : ReportUsers, period_start : PeriodInstants, period_end : PeriodInstants]

\* amounts in thousandths: 0.004 is stored as 0.00 and 0.104 as 0.10
TransactionInputs(amounts) ==
    [user_id : users \cup {UnknownUser}, amount : amounts, type : transactionTypeEnum,
     category_id : {c.id : c \in categories},
     transaction_date : {d * TicksPerDay : d \in Days}]

----------------------------------------------------------------------------
(* Specification of the transaction totals of the summary *)

Next ==
    \/ \E input \in TransactionInputs({4, 104}) : createTransaction(input)
    \/ \E input \in ReportInputs : getFinancialSummary(input, {})
    \/ Deliver

Spec == Init /\ [][Next]_vars

(* Specification of the category spending *)

NextSpending ==
    \/ \E input \in TransactionInputs({4, 104}) : createTransaction(input)
    \/ \E input \in ReportInputs : getCategorySpending(input, {})
    \/ Deliver

SpecSpending == Init /\ [][NextSpending]_vars

(* Specification of the budget performance *)

\* expenses of two categories on either day, an income and a foreign expense
BudgetSpecTransactions ==
    { [user_id |-> 1, amount |-> 104, type |-> "expense", category_id |-> 1,
       transaction_date |-> 1 * TicksPerDay],
      [user_id |-> 1, amount |-> 104, type |-> "expense", category_id |-> 2,
       transaction_date |-> 2 * TicksPerDay],
      [user_id |-> 1, amount |-> 104, type |-> "income", category_id |-> 3,
       transaction_date |-> 1 * TicksPerDay],
      [user_id |-> 2, amount |-> 104, type |-> "expense", category_id |-> 4,
       transaction_date |-> 1 * TicksPerDay] }

\* an overall budget of the first day, a category budget of both days whose
\* amount 0.004 is stored as 0.00, a foreign budget, a category budget of
\* the second day
BudgetInputs ==
    { [user_id |-> 1, name |-> "Overall", category_id |-> NULL,
       budget_amount |-> 1004,
       start_date |-> 1 * TicksPerDay, end_date |-> 1 * TicksPerDay + 1],
      [user_id |-> 1, name |-> "Food", category_id |-> 1,
       budget_amount |-> 4,
       start_date |-> 1 * TicksPerDay, end_date |-> 2 * TicksPerDay],
      [user_id |-> 2, name |-> "Other", category_id |-> NULL,
       budget_amount |-> 1004,
       start_date |-> 1 * TicksPerDay, end_date |-> 2 * TicksPerDay],
      [user_id |-> 1, name |-> "Transport", category_id |-> 2,
       budget_amount |-> 504,
       start_date |-> 2 * TicksPerDay, end_date |-> 2 * TicksPerDay + 1] }

NextBudgets ==
    \/ \E input \in BudgetSpecTransactions : createTransaction(input)
    \/ \E input \in BudgetInputs : createBudget(input)
    \/ \E input \in ReportInputs : getFinancialSummary(input, {})
    \/ Deliver

SpecBudgets == Init /\ [][NextBudgets]_vars

(* Specification of the investment and debt valuation *)

\* current values 0.184, 0.254 and 0.004 (stored as 0.18, 0.25 and 0.00)
\* bought on either day, one of them by the second user
InvestmentInputs ==
    { [user_id |-> 1, name |-> "Fund", current_value |-> 184,
       purchase_date |-> 1 * TicksPerDay],
      [user_id |-> 1, name |-> "Fund", current_value |-> 254,
       purchase_date |-> 2 * TicksPerDay],
      [user_id |-> 1, name |-> "Fund", current_value |-> 4,
       purchase_date |-> 1 * TicksPerDay],
      [user_id |-> 2, name |-> "Fund", current_value |-> 184,
       purchase_date |-> 1 * TicksPerDay] }

\* a paid-off debt, a debt with a due date and a debt of the second user
DebtInputs ==
    { [user_id |-> 1, lender |-> "Bank", current_balance |-> 0,
       due_date |-> NULL],
      [user_id |-> 1, lender |-> "Bank", current_balance |-> 154,
       due_date |-> 2 * TicksPerDay],
      [user_id |-> 2, lender |-> "Bank", current_balance |-> 154,
       due_date |-> NULL] }

NextHoldings ==
    \/ \E input \in InvestmentInputs : createInvestment(input)
    \/ \E input \in DebtInputs : createDebt(input)
    \/ \E input \in ReportInputs : getFinancialSummary(input, {})
    \/ Deliver

SpecHoldings == Init /\ [][NextHoldings]_vars

(* Specification of the reports over a store whose queries may fail *)

\* the sets of at most MaxFaults queries that fail during one call
FaultSets(queries) == {F \in SUBSET queries : Cardinality(F) <= MaxFaults}

SummaryFaults ==
    FaultSets(Range(SummaryQueries) \cup {Query("spent", b.id) : b \in budgets})

NextFaults ==
    \/ \E input \in BudgetInputs : createBudget(input)
    \/ \E input \in ReportInputs, faults \in SummaryFaults :
          getFinancialSummary(input, faults)
    \/ \E input \in ReportInputs, faults \in FaultSets({SpendingQuery}) :
          getCategorySpending(input, faults)
    \/ Deliver

SpecFaults == Init /\ [][NextFaults]_vars

----------------------------------------------------------------------------
(* Properties of the reports *)

SummaryReturned == resp.op = "getFinancialSummary" /\ resp.status = "resolved"
SpendingReturned == resp.op = "getCategorySpending" /\ resp.status = "resolved"

\* the user's transactions of one type dated within the period, both
\* calendar days included
InPeriod(input, type) ==
    {t \in transactions :
        /\ t.user_id = input.user_id
        /\ t.type = type
        /\ ToISODate(input.period_start) <= t.transaction_date
        /\ t.transaction_date <= ToISODate(input.period_end)}

\* C1: every summary getFinancialSummary returns has
\* net_income = total_income - total_expenses
C1_NetIncome ==
    SummaryReturned =>
        resp.value.net_income = resp.value.total_income - resp.value.total_expenses

\* a summary whose expenses exceed its income, so a negative net income
C1_Witness ==
    /\ SummaryReturned
    /\ resp.value.total_expenses > resp.value.total_income
    /\ resp.value.net_income < 0

\* C2: total_income and total_expenses are the sums of the amounts of the
\* user's income, resp. expense, transactions dated within the period, bounds
\* included; 0 without such a transaction, and the call never fails for want
\* of records
C2_Totals ==
    resp.op = "getFinancialSummary" =>
        /\ resp.status = "resolved"
        /\ resp.value.total_income = SumOf(InPeriod(resp.input, "income"), "amount")
        /\ resp.value.total_expenses = SumOf(InPeriod(resp.input, "expense"), "amount")

\* an expense dated on the last day of the period is counted while another
\* transaction of the user lies outside the period
C2_Witness ==
    /\ SummaryReturned
    /\ resp.value.total_expenses > 0
    /\ \E t \in InPeriod(resp.input, "expense") :
          t.transaction_date = ToISODate(resp.input.period_end)
    /\ \E t \in transactions :
          /\ t.user_id = resp.input.user_id
          /\ t.amount > 0
          /\ t.transaction_date > ToISODate(resp.input.period_end)

\* C3: getCategorySpending returns one row per category that has an expense
\* of the user in the period and none for any other category; a row carries
\* the sum and the number of those expenses
C3_SpendingRows ==
    SpendingReturned =>
        LET rows == resp.value
            matching == InPeriod(resp.input, "expense")
        IN  /\ \A i, j \in 1..Len(rows) :
                  i # j => rows[i].category_id # rows[j].category_id
            /\ {rows[i].category_id : i \in 1..Len(rows)} =
                  {t.category_id : t \in matching}
            /\ \A i \in 1..Len(rows) :
                  LET mine == {t \in matching : t.category_id = rows[i].category_id}
                  IN  /\ rows[i].total_amount = SumOf(mine, "amount")
                      /\ rows[i].transaction_count = Cardinality(mine)

\* one row is returned while the same user also has an income transaction
\* in the period, which shows in no row
C3_Witness ==
    /\ SpendingReturned
    /\ Len(resp.value) = 1
    /\ resp.value[1].total_amount > 0
    /\ \E t \in InPeriod(resp.input, "income") : t.amount > 0

RECURSIVE SumOfPercentages(_)
SumOfPercentages(rows) ==
    IF rows = <<>> THEN Num(0)
    ELSE RatAdd(SumOfPercentages(SubSeq(rows, 1, Len(rows) - 1)),
                rows[Len(rows)].percentage_of_total)

PercentagesOfTotal(rows) ==
    /\ \A i \in 1..Len(rows) :
          RatEq(rows[i].percentage_of_total,
                Times100(Quot(rows[i].total_amount, ReduceSum(rows, "total_amount"))))
    /\ RatEq(SumOfPercentages(rows), Num(100))

\* C4 as stated: in every non-empty list getCategorySpending returns, each
\* percentage_of_total is total_amount / (sum of total_amount) * 100 and the
\* percentages sum to 100
C4_PercentagesAsStated ==
    (SpendingReturned /\ Len(resp.value) > 0) => PercentagesOfTotal(resp.value)

\* C4 amended: that holds of every returned list whose rows' total_amount
\* sum is positive; when the sum is 0 every percentage_of_total is 0
C4_Percentages ==
    (SpendingReturned /\ Len(resp.value) > 0) =>
        IF ReduceSum(resp.value, "total_amount") > 0
        THEN PercentagesOfTotal(resp.value)
        ELSE \A i \in 1..Len(resp.value) :
                RatEq(resp.value[i].percentage_of_total, Num(0))

\* two categories share a positive total
C4_Witness ==
    /\ SpendingReturned
    /\ Len(resp.value) = 2
    /\ \A i \in 1..2 : resp.value[i].total_amount > 0

\* the budgets of the user whose window overlaps the reporting period
Overlapping(input) ==
    {b \in budgets :
        /\ b.user_id = input.user_id
        /\ b.start_date <= ToISODate(input.period_end)
        /\ b.end_date >= ToISODate(input.period_start)}

\* C5: budget_performance has exactly one entry for each budget of the user
\* whose window overlaps the reporting period and no other entry
C5_OverlappingBudgets ==
    SummaryReturned =>
        LET perf == resp.value.budget_performance
        IN  /\ Len(perf) = Cardinality(Overlapping(resp.input))
            /\ \E o \in Orderings(Overlapping(resp.input)) :
                  \A i \in 1..Len(perf) :
                     /\ perf[i].budget_name = o[i].name
                     /\ perf[i].budget_amount = o[i].budget_amount

\* the only entry is a budget that ends before the period does, while a
\* budget of another user is left out
C5_Witness ==
    /\ SummaryReturned
    /\ Len(resp.value.budget_performance) = 1
    /\ \E b \in Overlapping(resp.input) : b.end_date < ToISODate(resp.input.period_end)
    /\ \E b \in budgets : b.user_id # resp.input.user_id

\* the expenses of the user in the period that fall under a budget: those
\* of its category, or all of them for an overall budget
Covered(input, budget) ==
    {t \in InPeriod(input, "expense") :
        budget.category_id # NULL => t.category_id = budget.category_id}

\* C6: the spent_amount of an entry is the sum of the user's expenses of
\* the period, of the budget's category when it has one and of all
\* categories otherwise; income never counts
C6_SpentAmount ==
    SummaryReturned =>
        \A i \in 1..Len(resp.value.budget_performance) :
            resp.value.budget_performance[i].spent_amount =
                SumOf(Covered(resp.input, resp.budgets[i]), "amount")

\* a category budget counts its own category's expense and not the expense
\* of another category made in the same period
C6_Witness ==
    /\ SummaryReturned
    /\ \E i \in 1..Len(resp.value.budget_performance) :
          /\ resp.budgets[i].category_id # NULL
          /\ resp.value.budget_performance[i].spent_amount > 0
          /\ resp.value.budget_performance[i].spent_amount < resp.value.total_expenses

InWindow(budget, t) ==
    budget.start_date <= t.transaction_date /\ t.transaction_date <= budget.end_date

\* C7: spent_amount counts the expenses dated in the reporting period,
\* those outside the budget's own window as well as those inside it, and
\* no expense dated outside the reporting period
C7_SpentOverPeriod ==
    SummaryReturned =>
        \A i \in 1..Len(resp.value.budget_performance) :
            LET budget == resp.budgets[i]
                mine == {t \in transactions :
                            /\ t.user_id = resp.input.user_id
                            /\ t.type = "expense"
                            /\ (budget.category_id # NULL =>
                                  t.category_id = budget.category_id)}
                inPeriod == {t \in mine :
                                /\ ToISODate(resp.input.period_start) <= t.transaction_date
                                /\ t.transaction_date <= ToISODate(resp.input.period_end)}
            IN  resp.value.budget_performance[i].spent_amount =
                    SumOf({t \in inPeriod : InWindow(budget, t)}, "amount")
                  + SumOf({t \in inPeriod : ~InWindow(budget, t)}, "amount")

\* an expense dated in the period but after the budget's window is the
\* whole of the budget's spent_amount
C7_Witness ==
    /\ SummaryReturned
    /\ \E i \in 1..Len(resp.value.budget_performance) :
          /\ resp.value.budget_performance[i].spent_amount > 0
          /\ \A t \in Covered(resp.input, resp.budgets[i]) :
                ~InWindow(resp.budgets[i], t)

\* C8: every entry has remaining_amount = budget_amount - spent_amount and
\* percentage_used = spent_amount / budget_amount * 100 when budget_amount > 0,
\* and 0 when budget_amount or spent_amount is 0; no percentage is the
\* result of a division by zero
C8_RemainingAndPercentage ==
    SummaryReturned =>
        \A i \in 1..Len(resp.value.budget_performance) :
            LET e == resp.value.budget_performance[i]
            IN  /\ e.remaining_amount = e.budget_amount - e.spent_amount
                /\ IsFinite(e.percentage_used)
                /\ e.budget_amount > 0 =>
                      RatEq(e.percentage_used,
                            Times100(Quot(e.spent_amount, e.budget_amount)))
                /\ (e.budget_amount = 0 \/ e.spent_amount = 0) =>
                      RatEq(e.percentage_used, Num(0))

\* an overspent budget whose stored amount is 0
C8_Witness ==
    /\ SummaryReturned
    /\ \E i \in 1..Len(resp.value.budget_performance) :
          /\ resp.value.budget_performance[i].budget_amount = 0
          /\ resp.value.budget_performance[i].spent_amount > 0
          /\ resp.value.budget_performance[i].remaining_amount < 0

\* C9: total_investments_value is the sum of current_value over all
\* investments of the user and total_debt_balance the sum of current_balance
\* over all of the user's debts, whatever period the summary is asked for
C9_Holdings ==
    SummaryReturned =>
        /\ resp.value.total_investments_value =
              SumOf({i \in investments : i.user_id = resp.input.user_id}, "current_value")
        /\ resp.value.total_debt_balance =
              SumOf({d \in debts : d.user_id = resp.input.user_id}, "current_balance")
        /\ \A other \in ReportInputs :
              other.user_id = resp.input.user_id =>
                 LET summary == FinancialSummary(other, <<>>)
                 IN  /\ summary.total_investments_value =
                           resp.value.total_investments_value
                     /\ summary.total_debt_balance = resp.value.total_debt_balance

\* the summary values an investment bought after the period, next to a
\* foreign investment that is left out, and a debt due after the period
C9_Witness ==
    /\ SummaryReturned
    /\ resp.value.total_investments_value > 0
    /\ resp.value.total_debt_balance > 0
    /\ \E i \in investments :
          /\ i.user_id = resp.input.user_id
          /\ i.current_value > 0
          /\ i.purchase_date > ToISODate(resp.input.period_end)
    /\ \E i \in investments : i.user_id # resp.input.user_id /\ i.current_value > 0

ReportCalled == resp.op \in {"getFinancialSummary", "getCategorySpending"}

\* C10: when a query a report handler issued fails, the call rejects with
\* the error of a failed query and returns nothing; an awaited query that
\* fails is the last one issued, and no query is issued twice
C10_FailurePropagates ==
    ReportCalled =>
        LET failed == Range(resp.issued) \cap resp.faults
        IN  /\ failed # {} =>
                  /\ resp.status = "rejected"
                  /\ resp.error \in failed
                  /\ resp.value = <<>>
            /\ failed = {} => resp.status = "resolved"
            /\ \A i \in 1..Len(resp.issued) :
                  (resp.issued[i] \in resp.faults /\ resp.issued[i].q # "spent") =>
                      /\ i = Len(resp.issued)
                      /\ resp.error = resp.issued[i]
            /\ \A i, j \in 1..Len(resp.issued) :
                  i # j => resp.issued[i] # resp.issued[j]

\* of the spend queries of two budgets one fails and the other succeeds:
\* the summary is rejected with the error of the failed one
C10_Witness ==
    /\ resp.op = "getFinancialSummary"
    /\ resp.status = "rejected"
    /\ resp.error.q = "spent"
    /\ Len(resp.issued) = Len(SummaryQueries) + 2
    /\ Cardinality(Range(resp.issued) \cap resp.faults) = 1

\* C11: a call of getFinancialSummary or getCategorySpending, whether it
\* returns or fails, leaves every table of the store as it was
C11_ReportsLeaveStore ==
    [][ (resp = Idle /\ resp'.op \in {"getFinancialSummary", "getCategorySpending"})
            => store' = store ]_vars

\* a report over a store that holds budgets has failed
C11_Witness ==
    /\ ReportCalled
    /\ resp.status = "rejected"
    /\ budgets # {}

----------------------------------------------------------------------------
(* Specification of a caller that repeats a report *)

\* what a caller holds who awaited the same report twice in a row: no other
\* handler ran between the two calls
Twice(op, input, first, second) ==
    [op |-> op, input |-> input, first |-> first, second |-> second]

getFinancialSummaryTwice(input) ==
    /\ resp = Idle
    /\ \E first, second \in SummaryOutcomes(input, {}) :
          resp' = Twice("getFinancialSummary twice", input, first, second)
    /\ UNCHANGED <<store, inflight>>

getCategorySpendingTwice(input) ==
    /\ resp = Idle
    /\ \E first, second \in SpendingOutcomes(input, {}) :
          resp' = Twice("getCategorySpending twice", input, first, second)
    /\ UNCHANGED <<store, inflight>>

\* the first user's overall budget and Food budget, which share the first day
RepeatBudgetInputs == {b \in BudgetInputs : b.user_id = 1 /\ b.category_id # 2}

NextRepeat ==
    \/ \E input \in BudgetSpecTransactions : createTransaction(input)
    \/ \E input \in RepeatBudgetInputs : createBudget(input)
    \/ \E input \in ReportInputs : getFinancialSummaryTwice(input)
    \/ \E input \in ReportInputs : getCategorySpendingTwice(input)
    \/ Deliver

SpecRepeat == Init /\ [][NextRepeat]_vars

CalledTwice == resp.op \in {"getFinancialSummary twice", "getCategorySpending twice"}

\* C12: a report called twice with the same input and no write in between
\* returns the same result both times
C12_SameResultTwice ==
    CalledTwice => resp.first.value = resp.second.value

\* C13: the rows getCategorySpending returns come in an order the data
\* determines: in whichever order the store returns the groups, the list
\* returned for this store and this input is the same
C13_StableOrder ==
    SpendingReturned =>
        \A other \in SpendingOutcomes(resp.input, resp.faults) :
            other.value = resp.value

----------------------------------------------------------------------------
(* Update handlers.  An update input is a record that carries the key of   *)
(* every field it provides; a field that is undefined has no key.          *)

\* input[key] !== undefined
Provided(input, key) == key \in DOMAIN input

\* updateTransaction: the row of the given id gets the provided fields; a
\* new type or category is not checked against the category's type
updateTransaction(input) ==
    LET existing == {t \in transactions : t.id = input.id}
        old == CHOOSE t \in existing : TRUE
        updated ==
            [id               |-> old.id,
             user_id          |-> old.user_id,
             amount           |-> IF Provided(input, "amount")
                                  THEN ToNumeric2(input.amount) ELSE old.amount,
             type             |-> IF Provided(input, "type")
                                  THEN input.type ELSE old.type,
             category_id      |-> IF Provided(input, "category_id")
                                  THEN input.category_id ELSE old.category_id,
             transaction_date |-> IF Provided(input, "transaction_date")
                                  THEN ToISODate(input.transaction_date)
                                  ELSE old.transaction_date]
    IN  /\ resp = Idle
        /\ IF existing = {}
           THEN /\ resp' = Thrown("updateTransaction", input,
                                  "Transaction not found")
                /\ UNCHANGED <<store, inflight>>
           ELSE IF /\ Provided(input, "category_id")
                   /\ \A c \in categories : c.id # input.category_id
           THEN /\ resp' = Thrown("updateTransaction", input,
                                  "violates foreign key constraint")
                /\ UNCHANGED <<store, inflight>>
           ELSE /\ transactions' = (transactions \ {old}) \cup {updated}
                /\ resp' = Returned("updateTransaction", input, updated)
                /\ UNCHANGED <<users, credentials, inflight, categories, budgets, investments,
                               debts,
                               serial>>

----------------------------------------------------------------------------
(* Specification of the reports over transactions whose type was changed *)

\* an expense on Food and an income on Salary, both of the first day
KindTransactions ==
    { t \in BudgetSpecTransactions :
         t.user_id = 1 /\ t.transaction_date = 1 * TicksPerDay }

\* a change of type, a move to the Salary category, a change of the amount,
\* and an update of a transaction that may not exist
KindUpdates ==
    UNION { { [id |-> id, type |-> "expense"],
              [id |-> id, type |-> "income"],
              [id |-> id, category_id |-> 3],
              [id |-> id, amount |-> 254] } : id \in 1..MaxTransactions }

\* an overall budget and a budget on the Salary category
KindBudgets ==
    { [user_id |-> 1, name |-> "Overall", category_id |-> NULL,
       budget_amount |-> 1004,
       start_date |-> 1 * TicksPerDay, end_date |-> 2 * TicksPerDay],
      [user_id |-> 1, name |-> "Salary", category_id |-> 3,
       budget_amount |-> 504,
       start_date |-> 1 * TicksPerDay, end_date |-> 2 * TicksPerDay] }

NextKinds ==
    \/ \E input \in KindTransactions : createTransaction(input)
    \/ \E input \in KindUpdates : updateTransaction(input)
    \/ \E input \in KindBudgets : createBudget(input)
    \/ \E input \in ReportInputs : getFinancialSummary(input, {})
    \/ \E input \in ReportInputs : getCategorySpending(input, {})
    \/ Deliver

SpecKinds == Init /\ [][NextKinds]_vars

\* the type of the category a transaction is attached to
CategoryKind(t) == (CHOOSE c \in categories : c.id = t.category_id).type

\* the budget the i-th entry of the returned budget_performance is about
BudgetOf(i) == resp.budgets[i]

\* C14: the reports aggregate a transaction under its own stored type and
\* category_id, whatever the type of its category: the totals of the
\* summary, the spent amount of every budget and the rows of the category
\* spending are those of the user's transactions of the stored type
C14_StoredKindCounts ==
    /\ SummaryReturned =>
          /\ resp.value.total_income = SumOf(InPeriod(resp.input, "income"), "amount")
          /\ resp.value.total_expenses = SumOf(InPeriod(resp.input, "expense"), "amount")
          /\ \A i \in 1..Len(resp.value.budget_performance) :
                resp.value.budget_performance[i].spent_amount =
                    SumOf({t \in InPeriod(resp.input, "expense") :
                              BudgetOf(i).category_id # NULL =>
                                  t.category_id = BudgetOf(i).category_id},
                          "amount")
    /\ SpendingReturned =>
          /\ {resp.value[i].category_id : i \in 1..Len(resp.value)} =
                {t.category_id : t \in InPeriod(resp.input, "expense")}
          /\ \A i \in 1..Len(resp.value) :
                resp.value[i].total_amount =
                    SumOf({t \in InPeriod(resp.input, "expense") :
                              t.category_id = resp.value[i].category_id},
                          "amount")

\* the summary counted an expense attached to the income category Salary in
\* total_expenses and in the budget on Salary, and an income attached to an
\* expense category in total_income only
C14_Witness ==
    /\ SummaryReturned
    /\ \E t \in InPeriod(resp.input, "expense") :
          /\ CategoryKind(t) = "income"
          /\ t.amount > 0
    /\ \E t \in InPeriod(resp.input, "income") : CategoryKind(t) = "expense"
    /\ resp.value.total_expenses > 0
    /\ resp.value.total_income > 0
    /\ \E i \in 1..Len(resp.value.budget_performance) :
          /\ BudgetOf(i).category_id = 3
          /\ resp.value.budget_performance[i].spent_amount > 0

----------------------------------------------------------------------------
(* Specification of the reports page in a browser of some time zone *)

\* the offsets of the browser's zone, in ticks east of UTC
ZoneOffsets == {-1, 0, 1}

\* new Date(year, month, day): midnight of a calendar day in the browser's
\* zone, as an instant
LocalMidnight(day, zone) == day * TicksPerDay - zone

\* getDateRange: the first and the last day of the selected period, each
\* as a local midnight
getDateRange(first, last, zone) ==
    [start_date |-> LocalMidnight(first, zone),
     end_date   |-> LocalMidnight(last, zone)]

\* loadFinancialData: both reports are requested for the selected range
\* and awaited together
loadFinancialData(userId, first, last, zone) ==
    LET dateRange == getDateRange(first, last, zone)
        input == [user_id      |-> userId,
                  period_start |-> dateRange.start_date,
                  period_end   |-> dateRange.end_date]
    IN  /\ resp = Idle
        /\ \E summary \in SummaryOutcomes(input, {}),
              spending \in SpendingOutcomes(input, {}) :
              resp' = [op       |-> "loadFinancialData",
                       selected |-> [user_id |-> userId, first |-> first,
                                     last |-> last, zone |-> zone],
                       summary  |-> summary,
                       spending |-> spending]
        /\ UNCHANGED <<store, inflight>>

\* the first user's transactions of the budget specification
ZoneTransactions == {t \in BudgetSpecTransactions : t.user_id = 1}

NextZones ==
    \/ \E input \in ZoneTransactions : createTransaction(input)
    \/ \E first, last \in Days, zone \in ZoneOffsets :
          loadFinancialData(1, first, last, zone)
    \/ Deliver

SpecZones == Init /\ [][NextZones]_vars

\* the user's transactions of one type dated from the first to the last
\* selected day
Selected(selected, type) ==
    {t \in transactions :
        /\ t.user_id = selected.user_id
        /\ t.type = type
        /\ selected.first <= t.transaction_date
        /\ t.transaction_date <= selected.last}

\* C15: whatever the browser's time zone, the reports requested for the
\* days first..last cover exactly the transactions dated first..last
C15_SelectedDays ==
    resp.op = "loadFinancialData" =>
        /\ resp.summary.value.total_income =
              SumOf(Selected(resp.selected, "income"), "amount")
        /\ resp.summary.value.total_expenses =
              SumOf(Selected(resp.selected, "expense"), "amount")
        /\ ReduceSum(resp.spending.value, "total_amount") =
              SumOf(Selected(resp.selected, "expense"), "amount")

----------------------------------------------------------------------------
(* Properties of the write handlers *)

\* a transaction's category is one of its own user and of its own type
ConsistentTransaction(t) ==
    \E c \in categories :
        /\ c.id = t.category_id
        /\ c.user_id = t.user_id
        /\ c.type = t.type

\* the user of the input exists and owns the input's category, which has
\* the input's type
ValidTransactionInput(input) ==
    /\ input.user_id \in users
    /\ \E c \in categories :
          /\ c.id = input.category_id
          /\ c.user_id = input.user_id
          /\ c.type = input.type

\* C16: after any sequence of createTransaction calls every stored
\* transaction references a category of its own user and of its own type;
\* a call whose user is unknown, whose category is unknown or another
\* user's, or whose type differs from the category's throws and leaves the
\* transactions as they were
C16_CreateTransactionValidates ==
    [][ /\ (\A t \in transactions : ConsistentTransaction(t))'
        /\ (resp = Idle /\ resp'.op = "createTransaction") =>
              IF ValidTransactionInput(resp'.input)
              THEN /\ resp'.status = "resolved"
                   /\ transactions' = transactions \cup {resp'.value}
              ELSE /\ resp'.status = "rejected"
                   /\ transactions' = transactions ]_vars

\* with a transaction stored, an income on an expense category of the same
\* user has been refused
C16_Witness ==
    /\ resp.op = "createTransaction"
    /\ resp.status = "rejected"
    /\ resp.input.user_id \in users
    /\ \E c \in categories :
          /\ c.id = resp.input.category_id
          /\ c.user_id = resp.input.user_id
          /\ c.type # resp.input.type
    /\ transactions # {}

----------------------------------------------------------------------------
(* Update handlers of budgets, debts and investments.  now is the instant  *)
(* new Date() returns during the call.                                     *)

MaxClock == 1

\* the instants of the clock after the rows were inserted
Clock == 1..MaxClock

\* a Date assigned to a date column as it is: the driver writes the
\* calendar day of the instant in the server's zone, which is UTC
ToDriverDate(t) == t \div TicksPerDay

SetColumn_keepOld(input, key, converted, old) == old[key]

\* the new value of a column: the converted input field when the input
\* provides it, the old value otherwise
SetColumn(input, key, converted, old) ==
    IF Provided(input, key) THEN converted ELSE old[key]

\* updateBudget: one update of the row of the given id, which returns the
\* updated rows; the category is checked by the foreign key only
updateBudget(input, now) ==
    LET existing == {b \in budgets : b.id = input.id}
        old == CHOOSE b \in existing : TRUE
        updated ==
            [id            |-> old.id,
             user_id       |-> old.user_id,
             name          |-> SetColumn(input, "name", input.name, old),
             category_id   |-> SetColumn(input, "category_id",
                                         input.category_id, old),
             budget_amount |-> SetColumn(input, "budget_amount",
                                         ToNumeric2(input.budget_amount), old),
             start_date    |-> SetColumn(input, "start_date",
                                         ToDriverDate(input.start_date), old),
             end_date      |-> SetColumn(input, "end_date",
                                         ToDriverDate(input.end_date), old),
             updated_at    |-> now]
    IN  /\ resp = Idle
        /\ IF existing = {}
           THEN /\ resp' = Thrown("updateBudget", input, "Budget not found")
                /\ UNCHANGED <<store, inflight>>
           ELSE IF /\ Provided(input, "category_id")
                   /\ input.category_id # NULL
                   /\ \A c \in categories : c.id # input.category_id
           THEN /\ resp' = Thrown("updateBudget", input,
                                  "violates foreign key constraint")
                /\ UNCHANGED <<store, inflight>>
           ELSE /\ budgets' = (budgets \ {old}) \cup {updated}
                /\ resp' = Returned("updateBudget", input, updated)
                /\ UNCHANGED <<users, credentials, inflight, categories, transactions,
                               investments,
                               debts, serial>>

\* updateDebt: one update of the row of the given id, which returns the
\* updated rows
updateDebt(input, now) ==
    LET existing == {d \in debts : d.id = input.id}
        old == CHOOSE d \in existing : TRUE
        updated ==
            [id              |-> old.id,
             user_id         |-> old.user_id,
             lender          |-> SetColumn(input, "lender", input.lender, old),
             current_balance |-> SetColumn(input, "current_balance",
                                           ToNumeric2(input.current_balance),
                                           old),
             due_date        |-> SetColumn(input, "due_date",
                                           IF input.due_date # NULL
                                           THEN ToDriverDate(input.due_date)
                                           ELSE NULL, old),
             updated_at      |-> now]
    IN  /\ resp = Idle
        /\ IF existing = {}
           THEN /\ resp' = Thrown("updateDebt", input, "Debt not found")
                /\ UNCHANGED <<store, inflight>>
           ELSE /\ debts' = (debts \ {old}) \cup {updated}
                /\ resp' = Returned("updateDebt", input, updated)
                /\ UNCHANGED <<users, credentials, inflight, categories, transactions,
                               budgets,
                               investments, serial>>

\* updateInvestment: a select of the row of the given id, then the update
updateInvestment(input, now) ==
    LET existing == {i \in investments : i.id = input.id}
        old == CHOOSE i \in existing : TRUE
        updated ==
            [id            |-> old.id,
             user_id       |-> old.user_id,
             name          |-> SetColumn(input, "name", input.name, old),
             current_value |-> SetColumn(input, "current_value",
                                         ToNumeric2(input.current_value), old),
             purchase_date |-> SetColumn(input, "purchase_date",
                                         ToDriverDate(input.purchase_date), old),
             updated_at    |-> now]
    IN  /\ resp = Idle
        /\ IF existing = {}
           THEN /\ resp' = Thrown("updateInvestment", input,
                                  "Investment not found")
                /\ UNCHANGED <<store, inflight>>
           ELSE /\ investments' = (investments \ {old}) \cup {updated}
                /\ resp' = Returned("updateInvestment", input, updated)
                /\ UNCHANGED <<users, credentials, inflight, categories, transactions,
                               budgets,
                               debts, serial>>

----------------------------------------------------------------------------
(* Specification of the budget writes *)

\* a category id no row of the categories table carries
UnknownCategory == 9

\* budgets of every kind of input: valid ones with and without category,
\* one whose two instants lie in the same day, and ones with an unknown
\* user, an unknown category, another user's category, end before start
\* and end equal to start
BudgetWriteInputs ==
    { [user_id |-> u, name |-> "Budget", category_id |-> c,
       budget_amount |-> 1004, start_date |-> s, end_date |-> e] :
      u \in {1, UnknownUser}, c \in {NULL, 1, 4, UnknownCategory},
      s \in {1 * TicksPerDay, 2 * TicksPerDay},
      e \in {1 * TicksPerDay, 1 * TicksPerDay + 1} }

\* updates of the first budget and of an id that may not exist: to no
\* category, to a category of the first and of the second user, to an
\* unknown category, and of the name alone
BudgetCategoryUpdates ==
    UNION { { [id |-> id, category_id |-> NULL],
              [id |-> id, category_id |-> 2],
              [id |-> id, category_id |-> 4],
              [id |-> id, category_id |-> UnknownCategory],
              [id |-> id, name |-> "Renamed"] } : id \in {1, MaxBudgets} }

NextBudgetWrites ==
    \/ \E input \in BudgetWriteInputs : createBudget(input)
    \/ \E input \in BudgetCategoryUpdates, now \in Clock : updateBudget(input, now)
    \/ Deliver

SpecBudgetWrites == Init /\ [][NextBudgetWrites]_vars

\* C17: after any sequence of createBudget and updateBudget calls every
\* stored budget with a category references a category of its own user
C17_BudgetCategoryOwned ==
    \A b \in budgets :
        b.category_id # NULL =>
            \E c \in categories : /\ c.id = b.category_id
                                  /\ c.user_id = b.user_id

\* the user of the input exists, its category, if any, exists and is that
\* user's, and its start instant lies strictly before its end instant
ValidBudgetInput(input) ==
    /\ input.user_id \in users
    /\ input.category_id # NULL =>
          \E c \in categories : /\ c.id = input.category_id
                                /\ c.user_id = input.user_id
    /\ input.start_date < input.end_date

\* C18: createBudget stores a budget only when the user exists, the
\* category, if given, exists and is the user's, and start_date lies
\* strictly before end_date; in every other case, start_date equal to
\* end_date included, it throws and the budgets stay as they were
C18_CreateBudgetValidates ==
    [][ (resp = Idle /\ resp'.op = "createBudget") =>
            IF ValidBudgetInput(resp'.input)
            THEN /\ resp'.status = "resolved"
                 /\ resp'.value \notin budgets
                 /\ budgets' = budgets \cup {resp'.value}
            ELSE /\ resp'.status = "rejected"
                 /\ budgets' = budgets ]_vars

\* with a budget stored, a budget of an existing user and of a category of
\* that user whose start_date equals its end_date has been refused
C18_Witness ==
    /\ resp.op = "createBudget"
    /\ resp.status = "rejected"
    /\ resp.input.user_id \in users
    /\ resp.input.category_id = 1
    /\ resp.input.start_date = resp.input.end_date
    /\ budgets # {}

----------------------------------------------------------------------------
(* Delete handlers *)

deleteBudget_anyOwner(budgetId, userId) ==
    LET deleted == {b \in budgets : b.id = budgetId}
    IN  /\ resp = Idle
        /\ budgets' = budgets \ deleted
        /\ resp' = Returned("deleteBudget",
                            [id |-> budgetId, userId |-> userId],
                            Cardinality(deleted) = 1)
        /\ UNCHANGED <<users, credentials, inflight, categories, transactions, investments,
                       debts,
                       serial>>

\* deleteBudget: delete from budgets where id and user_id;
\* result.rowCount === 1
deleteBudget(budgetId, userId) ==
    LET deleted == {b \in budgets : b.id = budgetId /\ b.user_id = userId}
    IN  /\ resp = Idle
        /\ budgets' = budgets \ deleted
        /\ resp' = Returned("deleteBudget",
                            [id |-> budgetId, userId |-> userId],
                            Cardinality(deleted) = 1)
        /\ UNCHANGED <<users, credentials, inflight, categories, transactions, investments,
                       debts,
                       serial>>

\* deleteTransaction: delete from transactions where id and user_id;
\* (result.rowCount ?? 0) > 0
deleteTransaction(transactionId, userId) ==
    LET deleted == {t \in transactions :
                       t.id = transactionId /\ t.user_id = userId}
    IN  /\ resp = Idle
        /\ transactions' = transactions \ deleted
        /\ resp' = Returned("deleteTransaction",
                            [id |-> transactionId, userId |-> userId],
                            Cardinality(deleted) > 0)
        /\ UNCHANGED <<users, credentials, inflight, categories, budgets, investments, debts,
                       serial>>

\* deleteDebt: delete from debts where id and user_id returning id;
\* result.length > 0
deleteDebt(debtId, userId) ==
    LET deleted == {d \in debts : d.id = debtId /\ d.user_id = userId}
    IN  /\ resp = Idle
        /\ debts' = debts \ deleted
        /\ resp' = Returned("deleteDebt", [id |-> debtId, userId |-> userId],
                            Cardinality(deleted) > 0)
        /\ UNCHANGED <<users, credentials, inflight, categories, transactions, budgets,
                       investments,
                       serial>>

\* deleteInvestment: delete from investments where id and user_id
\* returning; result.length === 1
deleteInvestment(investmentId, userId) ==
    LET deleted == {i \in investments :
                       i.id = investmentId /\ i.user_id = userId}
    IN  /\ resp = Idle
        /\ investments' = investments \ deleted
        /\ resp' = Returned("deleteInvestment",
                            [id |-> investmentId, userId |-> userId],
                            Cardinality(deleted) = 1)
        /\ UNCHANGED <<users, credentials, inflight, categories, transactions, budgets, debts,
                       serial>>

----------------------------------------------------------------------------
(* Specification of the deletes *)

\* the store after each of the two users has created one transaction, one
\* budget, one investment and one debt
InitRecords ==
    /\ users = {1, 2}
    /\ credentials = SeedCredentials
    /\ inflight = NoCalls
    /\ categories = SeedCategories
    /\ transactions =
          { [id |-> 1, user_id |-> 1, amount |-> 10, type |-> "expense",
             category_id |-> 1, transaction_date |-> 1],
            [id |-> 2, user_id |-> 2, amount |-> 10, type |-> "expense",
             category_id |-> 4, transaction_date |-> 1] }
    /\ budgets =
          { [id |-> 1, user_id |-> 1, name |-> "Food", category_id |-> 1,
             budget_amount |-> 0, start_date |-> 1, end_date |-> 2,
             updated_at |-> DefaultNow],
            [id |-> 2, user_id |-> 2, name |-> "Other", category_id |-> NULL,
             budget_amount |-> 100, start_date |-> 1, end_date |-> 2,
             updated_at |-> DefaultNow] }
    /\ investments =
          { [id |-> 1, user_id |-> 1, name |-> "Fund", current_value |-> 18,
             purchase_date |-> 1, updated_at |-> DefaultNow],
            [id |-> 2, user_id |-> 2, name |-> "Fund", current_value |-> 18,
             purchase_date |-> 1, updated_at |-> DefaultNow] }
    /\ debts =
          { [id |-> 1, user_id |-> 1, lender |-> "Bank",
             current_balance |-> 15, due_date |-> 2,
             updated_at |-> DefaultNow],
            [id |-> 2, user_id |-> 2, lender |-> "Bank",
             current_balance |-> 15, due_date |-> NULL,
             updated_at |-> DefaultNow] }
    /\ serial = [categories |-> 5, transactions |-> 3, budgets |-> 3,
                 investments |-> 3, debts |-> 3,
                 tokens |-> 1]
    /\ resp = Idle

\* the ids of the stored records and one no record carries
RecordIds == 1..3

NextDeletes ==
    \/ \E id \in RecordIds, userId \in users \cup {UnknownUser} :
          deleteBudget(id, userId)
    \/ \E id \in RecordIds, userId \in users \cup {UnknownUser} :
          deleteTransaction(id, userId)
    \/ \E id \in RecordIds, userId \in users \cup {UnknownUser} :
          deleteDebt(id, userId)
    \/ \E id \in RecordIds, userId \in users \cup {UnknownUser} :
          deleteInvestment(id, userId)
    \/ Deliver

SpecDeletes == InitRecords /\ [][NextDeletes]_vars

\* the records of a table with the given id that the given user owns
OwnedBy(table, input) ==
    {r \in table : r.id = input.id /\ r.user_id = input.userId}

\* C19: a delete handler called with (id, userId) removes the record of
\* that id and returns true exactly when userId owns such a record;
\* otherwise it returns false; in both cases every other record of every
\* table stays
C19_DeleteOwnOnly ==
    [][ /\ (resp = Idle /\ resp'.op = "deleteBudget") =>
              /\ resp'.value = (OwnedBy(budgets, resp'.input) # {})
              /\ budgets' = budgets \ OwnedBy(budgets, resp'.input)
              /\ UNCHANGED <<transactions, debts, investments, categories, users>>
        /\ (resp = Idle /\ resp'.op = "deleteTransaction") =>
              /\ resp'.value = (OwnedBy(transactions, resp'.input) # {})
              /\ transactions' = transactions \ OwnedBy(transactions, resp'.input)
              /\ UNCHANGED <<budgets, debts, investments, categories, users>>
        /\ (resp = Idle /\ resp'.op = "deleteDebt") =>
              /\ resp'.value = (OwnedBy(debts, resp'.input) # {})
              /\ debts' = debts \ OwnedBy(debts, resp'.input)
              /\ UNCHANGED <<transactions, budgets, investments, categories, users>>
        /\ (resp = Idle /\ resp'.op = "deleteInvestment") =>
              /\ resp'.value = (OwnedBy(investments, resp'.input) # {})
              /\ investments' = investments \ OwnedBy(investments, resp'.input)
              /\ UNCHANGED <<transactions, budgets, debts, categories, users>>
      ]_vars

\* a user asked to delete another user's budget: the call returned false
\* and the budget is still stored
C19_Witness ==
    /\ resp.op = "deleteBudget"
    /\ resp.value = FALSE
    /\ \E b \in budgets : /\ b.id = resp.input.id
                          /\ b.user_id # resp.input.userId
                          /\ resp.input.userId \in users

----------------------------------------------------------------------------
(* Specification of the updates *)

\* updates of the first user's records and of an id no record carries:
\* of nothing, of one field, to null, of two fields, to an unknown category
BudgetUpdates ==
    UNION { { [id |-> id],
              [id |-> id, name |-> "Renamed"],
              [id |-> id, category_id |-> NULL],
              [id |-> id, category_id |-> UnknownCategory],
              [id |-> id, budget_amount |-> 254,
               start_date |-> 2 * TicksPerDay + 1] } : id \in {1, 3} }

DebtUpdates ==
    UNION { { [id |-> id],
              [id |-> id, due_date |-> NULL],
              [id |-> id, lender |-> "Union", current_balance |-> 4] } :
            id \in {1, 3} }

InvestmentUpdates ==
    UNION { { [id |-> id],
              [id |-> id, name |-> "Bond"],
              [id |-> id, current_value |-> 254,
               purchase_date |-> 2 * TicksPerDay] } : id \in {1, 3} }

NextUpdates ==
    \/ \E input \in BudgetUpdates, now \in Clock : updateBudget(input, now)
    \/ \E input \in DebtUpdates, now \in Clock : updateDebt(input, now)
    \/ \E input \in InvestmentUpdates, now \in Clock : updateInvestment(input, now)
    \/ Deliver

SpecUpdates == InitRecords /\ [][NextUpdates]_vars

\* the stored form of an input field
StoredForm(input, key) ==
    IF key \in {"budget_amount", "current_balance", "current_value"}
    THEN ToNumeric2(input[key])
    ELSE IF key \in {"start_date", "end_date", "purchase_date", "due_date"}
         THEN (IF input[key] = NULL THEN NULL ELSE ToISODate(input[key]))
    ELSE input[key]

\* new is old with exactly the provided fields of the input changed, and
\* with updated_at set by the call
ExactlyProvided(old, new, input, columns) ==
    /\ new.id = old.id
    /\ new.user_id = old.user_id
    /\ new.updated_at \in Clock
    /\ \A key \in columns :
          new[key] = IF key \in DOMAIN input THEN StoredForm(input, key)
                     ELSE old[key]

\* one step of an update handler on its table: when a record of the
\* input's id exists (and the update is not refused) that record, and no
\* other, changes as the input says and is returned; when none exists the
\* call throws the not-found error and the table is unchanged
UpdateStep(op, before, after, columns, notFound, refused) ==
    (resp = Idle /\ resp'.op = op) =>
        LET input == resp'.input
            existing == {r \in before : r.id = input.id}
        IN  IF existing = {}
            THEN /\ resp'.status = "rejected"
                 /\ resp'.error = notFound
                 /\ after = before
            ELSE IF refused
            THEN /\ resp'.status = "rejected"
                 /\ after = before
            ELSE /\ resp'.status = "resolved"
                 /\ resp'.value \in after
                 /\ \E old \in existing :
                       /\ ExactlyProvided(old, resp'.value, input, columns)
                       /\ after \ {resp'.value} = before \ {old}

budgetColumns == {"name", "category_id", "budget_amount", "start_date", "end_date"}
debtColumns == {"lender", "current_balance", "due_date"}
investmentColumns == {"name", "current_value", "purchase_date"}

\* the input names a category that no row of the categories table carries
NoSuchCategory(input) ==
    /\ "category_id" \in DOMAIN input
    /\ input.category_id # NULL
    /\ \A c \in categories : c.id # input.category_id

\* C20 as stated: updateBudget, updateDebt and updateInvestment applied to
\* an existing id change exactly the fields the input provides, and
\* updated_at, of that record and nothing else; applied to an id that does
\* not exist they throw a not-found error and change nothing
C20_UpdatesAsStated ==
    [][ /\ UpdateStep("updateBudget", budgets, budgets', budgetColumns,
                      "Budget not found", FALSE)
        /\ UpdateStep("updateDebt", debts, debts', debtColumns,
                      "Debt not found", FALSE)
        /\ UpdateStep("updateInvestment", investments, investments',
                      investmentColumns, "Investment not found", FALSE)
      ]_vars

\* C20: updateBudget, updateDebt and updateInvestment applied to an
\* existing id change exactly the fields the input provides, and
\* updated_at, of that record and nothing else, unless the input gives
\* updateBudget a category_id that no category carries: then the call
\* throws and nothing changes; applied to an id that does not exist they
\* throw a not-found error and change nothing; a table other than the
\* handler's own never changes
C20_Updates ==
    [][ /\ UpdateStep("updateBudget", budgets, budgets', budgetColumns,
                      "Budget not found", NoSuchCategory(resp'.input))
        /\ UpdateStep("updateDebt", debts, debts', debtColumns,
                      "Debt not found", FALSE)
        /\ UpdateStep("updateInvestment", investments, investments',
                      investmentColumns, "Investment not found", FALSE)
        /\ resp'.op = "updateBudget" =>
              UNCHANGED <<users, categories, transactions, debts, investments>>
        /\ resp'.op = "updateDebt" =>
              UNCHANGED <<users, categories, transactions, budgets, investments>>
        /\ resp'.op = "updateInvestment" =>
              UNCHANGED <<users, categories, transactions, budgets, debts>>
      ]_vars

\* the Food budget, renamed before, has been made an overall budget by an
\* update that passed category_id null: its name is still the new one
C20_Witness ==
    /\ resp.op = "updateBudget"
    /\ resp.status = "resolved"
    /\ DOMAIN resp.input = {"id", "category_id"}
    /\ resp.input.category_id = NULL
    /\ resp.value \in budgets
    /\ resp.value.category_id = NULL
    /\ resp.value.name = "Renamed"
    /\ Cardinality(budgets) = 2

----------------------------------------------------------------------------
(* Categories *)

MaxCategories == 6

ExistingCategory_anyUser(user_id, name) ==
    {c \in categories : c.name = name}

\* select from transaction_categories where user_id and name: text
\* equality, which tells "food" from "Food"
ExistingCategory(user_id, name) ==
    {c \in categories : c.user_id = user_id /\ c.name = name}

\* createTransactionCategory: user validation, the check of the name, then
\* the insert
createTransactionCategory(input) ==
    LET userExists == {u \in users : u = input.user_id}
        existingCategory == ExistingCategory(input.user_id, input.name)
        error == IF userExists = {} THEN "User does not exist"
                 ELSE IF Cardinality(existingCategory) > 0
                      THEN "Category already exists for this user"
                 ELSE ""
        category == [id      |-> serial.categories,
                     name    |-> input.name,
                     type    |-> input.type,
                     user_id |-> input.user_id]
    IN  /\ resp = Idle
        /\ Cardinality(categories) < MaxCategories
        /\ IF error # ""
           THEN /\ resp' = Thrown("createTransactionCategory", input, error)
                /\ UNCHANGED <<store, inflight>>
           ELSE /\ categories' = categories \cup {category}
                /\ serial' = [serial EXCEPT !.categories = @ + 1]
                /\ resp' = Returned("createTransactionCategory", input, category)
                /\ UNCHANGED <<users, credentials, inflight, transactions,
                               budgets, investments, debts>>

\* a name both users have, the same name in lower case, and a name only
\* the first user has
CategoryInputs ==
    [user_id : users \cup {UnknownUser}, name : {"Food", "food", "Transport"},
     type : transactionTypeEnum]

NextCategories ==
    \/ \E input \in CategoryInputs : createTransactionCategory(input)
    \/ Deliver

SpecCategories == Init /\ [][NextCategories]_vars

\* no user has two categories of the same name
UniqueCategoryNames ==
    \A c, d \in categories :
        (c.user_id = d.user_id /\ c.name = d.name) => c = d

\* C21: createTransactionCategory throws 'already exists' and stores
\* nothing when the user has a category of exactly that name, and stores
\* the category when only another user has that name; after any sequence
\* of calls, one after the other, no user has two categories of one name
C21_CategoryNamesUnique ==
    [][ /\ UniqueCategoryNames'
        /\ (resp = Idle /\ resp'.op = "createTransactionCategory") =>
              LET input == resp'.input
              IN  IF input.user_id \notin users
                  THEN /\ resp'.status = "rejected"
                       /\ categories' = categories
                  ELSE IF \E c \in categories : /\ c.user_id = input.user_id
                                                /\ c.name = input.name
                  THEN /\ resp'.status = "rejected"
                       /\ resp'.error = "Category already exists for this user"
                       /\ categories' = categories
                  ELSE /\ resp'.status = "resolved"
                       /\ resp'.value \notin categories
                       /\ resp'.value.name = input.name
                       /\ resp'.value.user_id = input.user_id
                       /\ categories' = categories \cup {resp'.value} ]_vars

\* the second user has created a Transport category, a name the first user
\* has too, and has then been refused a second one
C21_Witness ==
    /\ resp.op = "createTransactionCategory"
    /\ resp.status = "rejected"
    /\ resp.input.user_id = 2
    /\ resp.input.name = "Transport"
    /\ \E c, d \in categories :
          /\ c.name = "Transport" /\ c.user_id = 1
          /\ d.name = "Transport" /\ d.user_id = 2

----------------------------------------------------------------------------
(* Properties of the two reports taken together *)

\* C22: for the same user, period and store, the total_amount of the rows
\* of getCategorySpending add up to the total_expenses of
\* getFinancialSummary, and their transaction_count to the number of the
\* user's expense transactions of the period
C22_SpendingMatchesSummary ==
    resp.op = "loadFinancialData" =>
        /\ ReduceSum(resp.spending.value, "total_amount") =
              resp.summary.value.total_expenses
        /\ ReduceSum(resp.spending.value, "transaction_count") =
              Cardinality(InPeriod(resp.summary.input, "expense"))

\* both reports cover two expenses, of two categories or of one
C22_Witness ==
    /\ resp.op = "loadFinancialData"
    /\ resp.summary.input = resp.spending.input
    /\ Cardinality(InPeriod(resp.summary.input, "expense")) = 2
    /\ resp.summary.value.total_expenses > 0
    /\ Len(resp.spending.value) = 1


----------------------------------------------------------------------------
(* Requests in flight.  A handler that awaits several queries is suspended  *)
(* at each await, and other requests run in between.  inflight maps the id *)
(* of a suspended call to its frame: the handler's local variables and pc, *)
(* the await it is suspended at.                                           *)

Calls == {1, 2}

Suspend(call, frame) ==
    [c \in DOMAIN inflight \cup {call} |->
        IF c = call THEN frame ELSE inflight[c]]

\* a call may start when no earlier call of that id is still running; the
\* frame of a call that returned stays readable until the id is used again
Free(call) == call \in DOMAIN inflight => inflight[call].pc = "returned"

Suspended(call, op, pc) ==
    /\ call \in DOMAIN inflight
    /\ inflight[call].op = op
    /\ inflight[call].pc = pc

\* getFinancialSummary up to the await of the transaction totals: the call
\* starts and the store answers the first query
summaryTransactions(call, input) ==
    LET startDateStr == ToISODate(input.period_start)
        endDateStr   == ToISODate(input.period_end)
        transactionSummary ==
            TransactionSummary(input.user_id, startDateStr, endDateStr)
    IN  /\ Free(call)
        /\ inflight' = Suspend(call,
              [op |-> "getFinancialSummary", pc |-> "investments",
               input |-> input,
               total_income   |-> GroupTotal(transactionSummary, "income"),
               total_expenses |-> GroupTotal(transactionSummary, "expense"),
               total_investments_value |-> 0,
               total_debt_balance |-> 0,
               budgets |-> <<>>, spentResult |-> <<>>, entries |-> <<>>,
               settled |-> <<>>])
        /\ UNCHANGED <<store, resp>>

\* the await of the investment total
summaryInvestments(call) ==
    /\ Suspended(call, "getFinancialSummary", "investments")
    /\ inflight' = [inflight EXCEPT
          ![call].pc = "debts",
          ![call].total_investments_value =
              InvestmentSummary(inflight[call].input.user_id)]
    /\ UNCHANGED <<store, resp>>

\* the await of the debt total
summaryDebts(call) ==
    /\ Suspended(call, "getFinancialSummary", "debts")
    /\ inflight' = [inflight EXCEPT
          ![call].pc = "budgets",
          ![call].total_debt_balance =
              DebtSummary(inflight[call].input.user_id)]
    /\ UNCHANGED <<store, resp>>

\* the await of the budgets; budgets.map then starts one callback per
\* budget, each suspended at the await of its spend query
summaryBudgets(call) ==
    /\ Suspended(call, "getFinancialSummary", "budgets")
    /\ \E budgetRows \in Orderings(
              BudgetsQuery(inflight[call].input.user_id,
                           ToISODate(inflight[call].input.period_start),
                           ToISODate(inflight[call].input.period_end))) :
          inflight' = [inflight EXCEPT
              ![call].pc = "spent",
              ![call].budgets = budgetRows,
              ![call].spentResult = [i \in 1..Len(budgetRows) |-> NULL],
              ![call].entries = [i \in 1..Len(budgetRows) |-> <<>>]]
    /\ UNCHANGED <<store, resp>>

\* the spend query of the callback of budget i completes and the callback
\* returns its entry; settled lists the callbacks in the order they return
summarySpent(call, i) ==
    /\ Suspended(call, "getFinancialSummary", "spent")
    /\ i \in 1..Len(inflight[call].budgets)
    /\ \A k \in 1..Len(inflight[call].settled) : inflight[call].settled[k] # i
    /\ inflight' = [inflight EXCEPT
          ![call].settled = Append(@, i),
          ![call].spentResult[i] =
              SpentQuery(inflight[call].budgets[i],
                         inflight[call].input.user_id,
                         ToISODate(inflight[call].input.period_start),
                         ToISODate(inflight[call].input.period_end)),
          ![call].entries[i] =
              BudgetPerformance(inflight[call].budgets[i],
                                inflight[call].input.user_id,
                                ToISODate(inflight[call].input.period_start),
                                ToISODate(inflight[call].input.period_end))]
    /\ UNCHANGED <<store, resp>>

PromiseAll_settleOrder(entries, settled) ==
    [k \in 1..Len(settled) |-> entries[settled[k]]]

\* Promise.all fulfils with the values of its promises in the order of the
\* promises it was given
PromiseAll(entries, settled) == [i \in 1..Len(entries) |-> entries[i]]

\* the return statement, once Promise.all has fulfilled
summaryReturn(call) ==
    LET frame == inflight[call]
        budget_performance == PromiseAll(frame.entries, frame.settled)
        value == [user_id        |-> frame.input.user_id,
                  period_start   |-> frame.input.period_start,
                  period_end     |-> frame.input.period_end,
                  total_income   |-> frame.total_income,
                  total_expenses |-> frame.total_expenses,
                  net_income     |-> NetIncome(frame.total_income,
                                               frame.total_expenses),
                  total_investments_value |-> frame.total_investments_value,
                  total_debt_balance      |-> frame.total_debt_balance,
                  budget_performance      |-> budget_performance]
    IN  /\ Suspended(call, "getFinancialSummary", "spent")
        /\ Len(frame.settled) = Len(frame.budgets)
        /\ resp = Idle
        /\ resp' = Resolved("getFinancialSummary", frame.input, {}, value,
                            frame.budgets,
                            SummaryQueries \o
                                [i \in 1..Len(frame.budgets) |->
                                    Query("spent", frame.budgets[i].id)])
        /\ inflight' = [inflight EXCEPT ![call].pc = "returned"]
        /\ UNCHANGED store

(* Specification of a summary computed while other requests write *)

\* the expenses the other requests create: one of each of two categories
RacingTransactions ==
    { [user_id |-> 1, amount |-> 104, type |-> "expense", category_id |-> c,
       transaction_date |-> 1 * TicksPerDay] : c \in {1, 2} }

\* the store after the first user has created an overall budget and a
\* budget of the first category
InitRacing ==
    /\ users = {1, 2}
    /\ credentials = SeedCredentials
    /\ inflight = NoCalls
    /\ categories = SeedCategories
    /\ transactions = {}
    /\ budgets =
          { [id |-> 1, user_id |-> 1, name |-> "Overall",
             category_id |-> NULL, budget_amount |-> 100,
             start_date |-> 1, end_date |-> 2, updated_at |-> DefaultNow],
            [id |-> 2, user_id |-> 1, name |-> "Food", category_id |-> 1,
             budget_amount |-> 50, start_date |-> 1, end_date |-> 2,
             updated_at |-> DefaultNow] }
    /\ investments = {}
    /\ debts = {}
    /\ serial = [categories |-> 5, transactions |-> 1, budgets |-> 3,
                 investments |-> 1, debts |-> 1,
                 tokens |-> 1]
    /\ resp = Idle

RacingSummary ==
    [user_id |-> 1, period_start |-> 1 * TicksPerDay,
     period_end |-> 2 * TicksPerDay]

\* every transaction is created once: the ids stay below the bound
NextRacing ==
    \/ /\ serial.transactions <= MaxTransactions
       /\ \E input \in RacingTransactions : createTransaction(input)
    \/ \E id \in 1..MaxTransactions : deleteTransaction(id, 1)
    \/ summaryTransactions(1, RacingSummary)
    \/ summaryInvestments(1)
    \/ summaryDebts(1)
    \/ summaryBudgets(1)
    \/ \E i \in 1..MaxBudgets : summarySpent(1, i)
    \/ summaryReturn(1)
    \/ Deliver

SpecRacing == InitRacing /\ [][NextRacing]_vars

IsOverall(budget) == budget.category_id = NULL

\* C23: every returned summary is consistent with one state of the store:
\* each overall budget it lists has spent_amount equal to its
\* total_expenses and each category budget has spent_amount at most its
\* total_expenses, whatever other requests create or delete meanwhile
C23_SummaryOfOneState ==
    (resp.op = "getFinancialSummary" /\ resp.status = "resolved") =>
        \A i \in 1..Len(resp.budgets) :
            LET entry == resp.value.budget_performance[i]
            IN  IF IsOverall(resp.budgets[i])
                THEN entry.spent_amount = resp.value.total_expenses
                ELSE entry.spent_amount <= resp.value.total_expenses

\* C24: whatever the order in which the per-budget spend queries complete,
\* entry i of budget_performance carries the name and the amount of the
\* i-th budget read together with the spent amount its own query returned
C24_EntriesPairBudgets ==
    (/\ Suspended(1, "getFinancialSummary", "returned")
     /\ resp.op = "getFinancialSummary") =>
        /\ Len(resp.value.budget_performance) = Len(inflight[1].budgets)
        /\ \A i \in 1..Len(inflight[1].budgets) :
              LET entry == resp.value.budget_performance[i]
                  budget == inflight[1].budgets[i]
              IN  /\ entry.budget_name = budget.name
                  /\ entry.budget_amount = budget.budget_amount
                  /\ entry.spent_amount = inflight[1].spentResult[i]

\* a summary of two budgets with different spent amounts whose second
\* spend query completed first
C24_Witness ==
    /\ Suspended(1, "getFinancialSummary", "returned")
    /\ resp.op = "getFinancialSummary"
    /\ inflight[1].settled = <<2, 1>>
    /\ resp.value.budget_performance[1].budget_name
          # resp.value.budget_performance[2].budget_name
    /\ resp.value.budget_performance[1].spent_amount
          # resp.value.budget_performance[2].spent_amount


----------------------------------------------------------------------------
(* Specification of the reports of one user while both users write *)

\* an expense of either user in a category of the user's own
IsolationTransactions ==
    { [user_id |-> u, amount |-> 104, type |-> "expense",
       category_id |-> IF u = 1 THEN 1 ELSE 4,
       transaction_date |-> 1 * TicksPerDay] : u \in users }

\* budget 2 is the second user's; category 1 is the first user's
IsolationBudgetUpdates ==
    { [id |-> 2, budget_amount |-> 254],
      [id |-> 2, category_id |-> 1] }

\* the period the reports are requested for
IsolationPeriod == <<1 * TicksPerDay + 1, 2 * TicksPerDay>>

IsolationReport ==
    [user_id |-> 1, period_start |-> IsolationPeriod[1],
     period_end |-> IsolationPeriod[2]]

\* the instant of the updates
IsolationNow == 1

\* either user creates and deletes transactions; the second user updates and
\* deletes the other records and creates a category.  A transaction
\* created after the seeded ones carries the next id, the last of RecordIds
NextIsolation ==
    \/ /\ serial.transactions \in RecordIds
       /\ \E input \in IsolationTransactions : createTransaction(input)
    \/ \E id \in RecordIds, userId \in users : deleteTransaction(id, userId)
    \/ \E input \in IsolationBudgetUpdates :
          updateBudget(input, IsolationNow)
    \/ deleteBudget(2, 2)
    \/ updateInvestment([id |-> 2, current_value |-> 254], IsolationNow)
    \/ deleteInvestment(2, 2)
    \/ updateDebt([id |-> 2, current_balance |-> 4], IsolationNow)
    \/ deleteDebt(2, 2)
    \/ createTransactionCategory(
          [user_id |-> 2, name |-> "Transport", type |-> "expense"])
    \/ getFinancialSummary(IsolationReport, {})
    \/ getCategorySpending(IsolationReport, {})
    \/ Deliver

SpecIsolation == InitRecords /\ [][NextIsolation]_vars

\* the records of a user
OwnRecords(u) ==
    << {t \in transactions : t.user_id = u},
       {c \in categories : c.user_id = u},
       {b \in budgets : b.user_id = u},
       {i \in investments : i.user_id = u},
       {d \in debts : d.user_id = u} >>

\* what the two reports may return to a user
ReportValues(u) ==
    LET input == [IsolationReport EXCEPT !.user_id = u]
    IN  << {o.value : o \in SummaryOutcomes(input, {})},
           {o.value : o \in SpendingOutcomes(input, {})} >>

\* C25: the results of getFinancialSummary and getCategorySpending of a
\* user depend on that user's own records only: a step that leaves them as
\* they are, whatever it does to the records of another user, leaves the
\* results as they are
C25_OwnRecordsOnly ==
    [][\A u \in users :
          OwnRecords(u)' = OwnRecords(u) => ReportValues(u)' = ReportValues(u)
      ]_vars

\* the second user's write went through while the first user has an expense,
\* a budget, an investment and a debt to report
C25_Witness ==
    /\ resp.op \in {"createTransaction", "updateBudget", "updateDebt"}
    /\ resp.status = "resolved"
    /\ resp.value.user_id = 2
    /\ \A k \in 1..5 : OwnRecords(1)[k] # {}
    /\ ReportValues(1) # ReportValues(2)


----------------------------------------------------------------------------
(* createTransactionCategory statement by statement.  The frame of a call  *)
(* that returned holds its outcome: the value returned or the error thrown. *)

Return(call, value) ==
    [inflight EXCEPT ![call].pc = "returned", ![call].status = "resolved",
                     ![call].value = value]

Throw(call, error) ==
    [inflight EXCEPT ![call].pc = "returned", ![call].status = "rejected",
                     ![call].error = error]

\* the call starts and the store answers the select of the user
categoryUserExists(call, input) ==
    LET userExists == {u \in users : u = input.user_id}
        frame == [op |-> "createTransactionCategory", pc |-> "existing",
                  input |-> input, status |-> "pending", value |-> NULL,
                  error |-> ""]
    IN  /\ Free(call)
        /\ Cardinality(categories) < MaxCategories
        /\ inflight' =
              Suspend(call,
                      IF Cardinality(userExists) = 0
                      THEN [frame EXCEPT !.pc = "returned",
                                         !.status = "rejected",
                                         !.error = "User does not exist"]
                      ELSE frame)
        /\ UNCHANGED <<store, resp>>

\* the store answers the select of the categories of that user and name
categoryExisting(call) ==
    LET input == inflight[call].input
        existingCategory == ExistingCategory(input.user_id, input.name)
    IN  /\ Suspended(call, "createTransactionCategory", "existing")
        /\ inflight' =
              IF Cardinality(existingCategory) > 0
              THEN Throw(call, "Category already exists for this user")
              ELSE [inflight EXCEPT ![call].pc = "insert"]
        /\ UNCHANGED <<store, resp>>

\* the store executes the insert; the table has no unique constraint on
\* (user_id, name), so the insert of a name the user already has succeeds
categoryInsert(call) ==
    LET input == inflight[call].input
        category == [id      |-> serial.categories,
                     name    |-> input.name,
                     type    |-> input.type,
                     user_id |-> input.user_id]
    IN  /\ Suspended(call, "createTransactionCategory", "insert")
        /\ categories' = categories \cup {category}
        /\ serial' = [serial EXCEPT !.categories = @ + 1]
        /\ inflight' = Return(call, category)
        /\ UNCHANGED <<users, credentials, transactions, budgets, investments,
                       debts, resp>>

(* Specification of concurrent category creation *)

\* a name both users have and a name no user has, for either user and for
\* a user id that does not exist
RacingCategories ==
    [user_id : users \cup {UnknownUser}, name : {"Food", "Rent"},
     type : {"expense"}]

NextCategoryRace ==
    \/ \E call \in Calls, input \in RacingCategories :
          categoryUserExists(call, input)
    \/ \E call \in Calls : categoryExisting(call)
    \/ \E call \in Calls : categoryInsert(call)

SpecCategoryRace == Init /\ [][NextCategoryRace]_vars

\* C26: no user ever has two categories of the same name, also when the
\* statements of two createTransactionCategory calls for the same user and
\* name interleave
C26_UniqueUnderRace ==
    \A c \in categories :
        Cardinality(ExistingCategory(c.user_id, c.name)) = 1


----------------------------------------------------------------------------
(* updateInvestment statement by statement *)

\* the call starts and the store answers the select of the row
investmentExisting(call, input) ==
    LET existingInvestment == {i \in investments : i.id = input.id}
        frame == [op |-> "updateInvestment", pc |-> "update",
                  input |-> input, status |-> "pending", value |-> NULL,
                  error |-> ""]
    IN  /\ Free(call)
        /\ inflight' =
              Suspend(call,
                      IF Cardinality(existingInvestment) = 0
                      THEN [frame EXCEPT !.pc = "returned",
                                         !.status = "rejected",
                                         !.error = "Investment not found"]
                      ELSE frame)
        /\ UNCHANGED <<store, resp>>

\* the store executes the update and returns the rows it changed; the
\* handler reads the fields of result[0] without looking at the length of
\* result, which is a TypeError when no row was changed
investmentUpdate(call, now) ==
    LET input == inflight[call].input
        rows == {i \in investments : i.id = input.id}
        updated(old) ==
            [id            |-> old.id,
             user_id       |-> old.user_id,
             name          |-> SetColumn(input, "name", input.name, old),
             current_value |-> SetColumn(input, "current_value",
                                         ToNumeric2(input.current_value), old),
             purchase_date |-> SetColumn(input, "purchase_date",
                                         ToDriverDate(input.purchase_date), old),
             updated_at    |-> now]
        result == {updated(old) : old \in rows}
    IN  /\ Suspended(call, "updateInvestment", "update")
        /\ investments' = (investments \ rows) \cup result
        /\ inflight' = IF result = {}
                       THEN Throw(call, "TypeError")
                       ELSE Return(call, CHOOSE investment \in result : TRUE)
        /\ UNCHANGED <<users, credentials, categories, transactions, budgets,
                       debts, serial, resp>>

(* Specification of an update racing with a delete *)

NextInvestmentRace ==
    \/ \E call \in Calls, input \in InvestmentUpdates :
          investmentExisting(call, input)
    \/ \E call \in Calls, now \in Clock : investmentUpdate(call, now)
    \/ \E id \in RecordIds, userId \in users : deleteInvestment(id, userId)
    \/ Deliver

SpecInvestmentRace == InitRecords /\ [][NextInvestmentRace]_vars

\* C27: updateInvestment returns the updated investment or throws the
\* not-found error, also when a deleteInvestment of the same id executes
\* between its select and its update
C27_UpdatedOrNotFound ==
    \A call \in DOMAIN inflight :
        Suspended(call, "updateInvestment", "returned") =>
            \/ /\ inflight[call].status = "resolved"
               /\ inflight[call].value.id = inflight[call].input.id
            \/ /\ inflight[call].status = "rejected"
               /\ inflight[call].error = "Investment not found"


----------------------------------------------------------------------------
(* Password reset and login.  The instants of this flow are counted in     *)
(* half hours.  The server process runs in a time zone; getHours and       *)
(* setHours work on the local time of that zone.                           *)

\* one hour, in half hours
Hour == 2

\* the instants at which the handlers are called
MaxInstant == 4
Instants30 == 0..MaxInstant

\* the reset tokens uuidv4() returns are numbered in the order they are
\* drawn: a draw never repeats an earlier one
MaxTokens == 2

\* a zone without daylight saving time, and a zone whose clocks are set back
\* one hour at the instant FallBack
ServerZones == {"utc", "dst"}
FallBack == 3

\* the offset of local time from UTC at instant t
ZoneOffset(t, zone) == IF zone = "dst" /\ t < FallBack THEN Hour ELSE 0

LocalTime(t, zone) == t + ZoneOffset(t, zone)

\* the instant a local time stands for; a local time that occurs twice is
\* read with the offset in force before the transition
UTC(local, zone) ==
    IF zone = "dst" /\ local - Hour < FallBack THEN local - Hour ELSE local

\* expires.setHours(expires.getHours() + 1): one hour later on the local
\* clock
SetHours(now, zone) == UTC(LocalTime(now, zone) + Hour, zone)

\* what requestPasswordReset returns, users being the rows of the select
ResetRequested(rows, token) ==
    IF Cardinality(rows) = 0
    THEN [message |-> "If an account with that email exists, a password reset link has been sent."]
    ELSE [message |-> "Password reset link simulated. Check console for token.",
          token |-> token]

\* requestPasswordReset: the select of the user by email, then the update
\* that stores a new token and its expiry
requestPasswordReset(input, now, zone) ==
    LET rows == {u \in DOMAIN credentials :
                    credentials[u].email = input.email}
        user  == CHOOSE u \in rows : TRUE
        token == serial.tokens
        expires == SetHours(now, zone)
    IN  /\ resp = Idle
        /\ serial.tokens <= MaxTokens
        /\ IF Cardinality(rows) = 0
           THEN /\ resp' = Returned("requestPasswordReset", input,
                                    ResetRequested(rows, token))
                /\ UNCHANGED <<store, inflight>>
           ELSE /\ credentials' =
                      [credentials EXCEPT
                          ![user].password_reset_token = token,
                          ![user].password_reset_expires = expires,
                          ![user].updated_at = now]
                /\ serial' = [serial EXCEPT !.tokens = @ + 1]
                /\ resp' = Returned("requestPasswordReset", input,
                                    ResetRequested(rows, token))
                /\ UNCHANGED <<users, inflight, categories, transactions,
                               budgets, investments, debts>>

\* the users the select of resetPassword returns: a null token or a null
\* expiry matches nothing
ResetRows(input, now) ==
    {u \in DOMAIN credentials :
        /\ credentials[u].email = input.email
        /\ credentials[u].password_reset_token # NULL
        /\ credentials[u].password_reset_token = input.token
        /\ credentials[u].password_reset_expires # NULL
        /\ credentials[u].password_reset_expires > now}

\* resetPassword: the select of the user by email, token and expiry, then
\* the update of the hash that clears the token
resetPassword(input, now) ==
    LET rows == ResetRows(input, now)
        user == CHOOSE u \in rows : TRUE
    IN  /\ resp = Idle
        /\ IF Cardinality(rows) = 0
           THEN /\ resp' = Thrown("resetPassword", input,
                                  "Invalid or expired password reset token.")
                /\ UNCHANGED <<store, inflight>>
           ELSE /\ credentials' =
                      [credentials EXCEPT
                          ![user].password_hash = Hash(input.new_password),
                          ![user].password_reset_token = NULL,
                          ![user].password_reset_expires = NULL,
                          ![user].updated_at = now]
                /\ resp' = Returned("resetPassword", input,
                      [message |-> "Your password has been successfully reset."])
                /\ UNCHANGED <<users, inflight, categories, transactions,
                               budgets, investments, debts, serial>>

\* Bun.password.verify(password, hash) of a hash Bun.password.hash made
Verify(password, hash) == hash.of = password

IsValidPassword_plainOnly(password, password_hash) ==
    password_hash.algorithm = "plain" /\ password = password_hash.of

\* the password check of loginUser: Bun.password.verify, and the comparison
\* with the column itself when verify throws UnsupportedAlgorithm
IsValidPassword(password, password_hash) ==
    IF password_hash.algorithm = "argon2id"
    THEN Verify(password, password_hash)
    ELSE password = password_hash.of

\* what loginUser returns: the set holding the user, the empty set for null
LoginResult(input) ==
    LET rows == {u \in DOMAIN credentials :
                    credentials[u].email = input.email}
        user == CHOOSE u \in rows : TRUE
    IN  IF Cardinality(rows) = 0 THEN {}
        ELSE IF ~IsValidPassword(input.password,
                                 credentials[user].password_hash) THEN {}
        ELSE { [id            |-> user,
                email         |-> credentials[user].email,
                password_hash |-> credentials[user].password_hash,
                updated_at    |-> credentials[user].updated_at] }

\* loginUser: the select of the user by email, then the password check
loginUser(input) ==
    /\ resp = Idle
    /\ resp' = Returned("loginUser", input, LoginResult(input))
    /\ UNCHANGED <<store, inflight>>

(* Specification of the password reset *)

Emails == {"ann@example.com", "bob@example.com", "nobody@example.com"}
Passwords == {"first-secret", "second-secret"}

ResetInputs ==
    [email : Emails, token : 1..MaxTokens, new_password : Passwords]

LoginInputs == [email : Emails, password : Passwords \cup {"wrong-secret"}]

NextPasswords ==
    \/ \E email \in Emails, now \in Instants30, zone \in ServerZones :
          requestPasswordReset([email |-> email], now, zone)
    \/ \E input \in ResetInputs, now \in Instants30 :
          resetPassword(input, now)
    \/ \E input \in LoginInputs : loginUser(input)
    \/ Deliver

SpecPasswords == Init /\ [][NextPasswords]_vars

\* the users that store the given token
Holders(token) ==
    {u \in DOMAIN credentials :
        credentials[u].password_reset_token = token}

\* C28: a reset token authorises at most one successful resetPassword, only
\* for the email it was issued for, only while it is the token issued last
\* to that user and only while less than one hour has passed since it was
\* issued; a successful reset clears the stored token and expiry, a failed
\* one throws and leaves the hash and the token as they are
C28_ResetTokens ==
    [][/\ (resp = Idle /\ resp'.op = "resetPassword") =>
            LET input == resp'.input
            IN  IF resp'.status = "resolved"
                THEN \E u \in Holders(input.token) :
                        LET now == credentials'[u].updated_at
                        IN  /\ Holders(input.token) = {u}
                            /\ credentials[u].email = input.email
                            /\ now - credentials[u].updated_at < Hour
                            /\ credentials' =
                                  [credentials EXCEPT
                                      ![u].password_hash =
                                          Hash(input.new_password),
                                      ![u].password_reset_token = NULL,
                                      ![u].password_reset_expires = NULL,
                                      ![u].updated_at = now]
                ELSE /\ resp'.error =
                           "Invalid or expired password reset token."
                     /\ credentials' = credentials
       \* a token is issued once and replaces the token the user had: a
       \* token that is not stored is stored by no later step unless it is
       \* the next one to be drawn
       /\ serial'.tokens >= serial.tokens
       /\ \A token \in 1..MaxTokens :
             /\ Cardinality(Holders(token)') <= 1
             /\ Holders(token)' # {} => token < serial'.tokens
             /\ (Holders(token)' # {} /\ Holders(token) = {}) =>
                   token = serial.tokens
      ]_vars

\* the users that have the given email
Accounts(email) ==
    {u \in DOMAIN credentials : credentials[u].email = email}

\* C29: requestPasswordReset does not reveal whether the email has an
\* account: whatever the email, it returns what it returns for an email
\* without account, and for such an email it changes no user record
C29_NoAccountDisclosure ==
    [][(resp = Idle /\ resp'.op = "requestPasswordReset") =>
          /\ resp'.value = ResetRequested({}, NULL)
          /\ Accounts(resp'.input.email) = {} => credentials' = credentials
      ]_vars

\* the ids of the users loginUser returns for an email and a password
LoggedIn(email, password) ==
    {r.id : r \in LoginResult([email |-> email, password |-> password])}

\* a step of resetPassword that succeeded
ResetDone == resp = Idle /\ resp'.op = "resetPassword" /\ resp'.status = "resolved"

\* loginUser returns the user exactly for the email and the password the
\* stored hash was made of, and leaves the store as it is; the logins of a
\* user stay as they are until the next successful reset
LoginRules ==
    /\ (resp = Idle /\ resp'.op = "loginUser") =>
          /\ resp'.value = LoginResult(resp'.input)
          /\ Accounts(resp'.input.email) = {} => resp'.value = {}
          /\ resp'.input.password = "wrong-secret" => resp'.value = {}
          /\ \A r \in resp'.value :
                /\ Accounts(resp'.input.email) = {r.id}
                /\ credentials[r.id].password_hash.of = resp'.input.password
          /\ store' = store
    /\ ~ResetDone =>
          \A email \in Emails, password \in Passwords \cup {"wrong-secret"} :
              LoggedIn(email, password)' = LoggedIn(email, password)

\* C30 as stated: after a successful resetPassword(email, token,
\* new_password) the login with the new password returns that user and the
\* login with the previous password returns null
C30_LoginAfterResetAsStated ==
    [][/\ LoginRules
       /\ ResetDone =>
             \A input \in {i \in ResetInputs : i = resp'.input} :
                 /\ LoggedIn(input.email, input.new_password)'
                       = Accounts(input.email)
                 /\ \A previous \in Passwords :
                       LoggedIn(input.email, previous) # {} =>
                           LoggedIn(input.email, previous)' = {}
      ]_vars

\* C30: after a successful resetPassword(email, token, new_password) the
\* login with the new password returns that user and the login with the
\* previous password, when it differs from the new one, returns null,
\* until the password is reset again; loginUser returns null for an
\* unknown email or a wrong password and never changes the store
C30_LoginAfterReset ==
    [][/\ LoginRules
       /\ ResetDone =>
             \A input \in {i \in ResetInputs : i = resp'.input} :
                 /\ LoggedIn(input.email, input.new_password)'
                       = Accounts(input.email)
                 /\ Accounts(input.email) # {}
                 /\ \A previous \in Passwords \ {input.new_password} :
                       LoggedIn(input.email, previous) # {} =>
                           LoggedIn(input.email, previous)' = {}
      ]_vars

\* a login with the password a reset has set returned the user, while the
\* password from before the reset no longer logs in
C30_Witness ==
    /\ resp.op = "loginUser"
    /\ resp.input.password = "second-secret"
    /\ resp.value # {}
    /\ LoggedIn(resp.input.email, "first-secret") = {}

====
